---- MODULE Spec2Model ----
(***************************************************************************)
(* Voliware/logger: the log-record formatter (LoggerMessage), the console  *)
(* logger of src/logger.js with its NodeLogger file output, and the        *)
(* FileLogger sink with its first-line eviction (FirstLineTransform).      *)
(*                                                                         *)
(* Text is a sequence of characters and a file is a sequence of bytes;     *)
(* both are written as sequences of one-token strings.  An ASCII character *)
(* and its byte share a token.                                             *)
(***************************************************************************)
EXTENDS Integers, Sequences, FiniteSets, TLC

VARIABLES
    \* LoggerMessage (src/unnamed/part_001)
    clock,          \* the value Date.now() returns
    message,        \* the LoggerMessage last constructed
    rendered,       \* the result of the last message.toString()
    \* Logger / NodeLogger (src/src/logger.js 1-386, src/src/node-logger.js)
    options,        \* this.options
    console_out,    \* what console.log has received, in order
    logfile,        \* the content of options.output.file
    \* FileLogger (src/src/logger.js 387-644)
    logger,         \* the fields of the FileLogger object
    disk,           \* the files at filepath and at filepath + ".tmp"
    crashed,        \* an 'error' event nobody listens to has ended the process
    pipe,           \* the read | transform | write pipeline of deleteFirstLine
    emitted,        \* the texts handed to append(), in order (history)
    used,           \* the operations that have run on the logger (history)
    \* MongoDbLogger (src/unnamed/part_000)
    mongo,          \* the fields of the MongoDbLogger object
    collection,     \* the documents of the collection, in natural order
    driver,         \* the operations sent to the store and not yet executed
    sent,           \* the documents handed to insertOne and the calls (history)
    call            \* the operation that ran last, with its arguments

msgVars  == <<clock, message, rendered>>
v1Vars   == <<options, console_out, logfile>>
fileVars == <<logger, disk, crashed, pipe, emitted, used>>
mongoVars == <<mongo, collection, driver, sent>>
vars     == <<msgVars, v1Vars, fileVars, mongoVars, call>>

-----------------------------------------------------------------------------
(* Bounds of the model.                                                    *)

MaxClock == 2      \* clock values 0..MaxClock
MaxCalls == 5      \* records emitted when log() is the only operation called
MaxOps   == 3      \* records emitted when every operation is called
MaxLimit == 2      \* the largest maxlogs a logger is configured with
MaxLines == 2      \* lines of a file whose first line is cut chunk by chunk
MaxOut   == 2      \* messages the console logger of src/logger.js emits
MaxQueued == 2     \* appends made without awaiting the one before
MaxDocs  == 3      \* log calls on the MongoDbLogger
MaxRemovals == 2   \* deleteFirstDocument and clear calls on the MongoDbLogger
MaxDepth == 2      \* nesting levels of a structured payload

-----------------------------------------------------------------------------
(* JavaScript values and strings.                                          *)

Undef  == [t |-> "undefined", v |-> <<>>]
Null   == [t |-> "null",      v |-> <<>>]
Str(s) == [t |-> "string",    v |-> s]
Num(n) == [t |-> "number",    v |-> n]

\* ToBoolean(v)
Truthy(v) ==
    \/ v.t = "string" /\ v.v # <<>>
    \/ v.t = "number" /\ v.v # 0

\* `${v}`
Template(v) ==
    CASE v.t = "string"    -> v.v
      [] v.t = "number"    -> <<ToString(v.v)>>
      [] v.t = "null"      -> <<"n", "u", "l", "l">>
      [] v.t = "undefined" -> <<"u", "n", "d", "e", "f", "i", "n", "e", "d">>

\* `[${s}] `
Bracket(s) == <<"[">> \o s \o <<"]", " ">>

RECURSIVE Flatten(_)
Flatten(ss) == IF ss = <<>> THEN <<>> ELSE Head(ss) \o Flatten(Tail(ss))

\* s.indexOf(p): the first index (from 0) where p occurs in s, or -1
IndexOf(s, p) ==
    LET hits == {i \in 0..(Len(s) - Len(p)) : SubSeq(s, i + 1, i + Len(p)) = p}
    IN  IF hits = {} THEN -1
        ELSE CHOOSE i \in hits : \A j \in hits : i <= j

\* s.slice(a, b) and s.slice(a), for 0 <= a <= b
Slice(s, a, b) == SubSeq(s, a + 1, IF b > Len(s) THEN Len(s) ELSE b)
SliceFrom(s, a) == SubSeq(s, a + 1, Len(s))

\* os.EOL as the tests expect it ("\r\n")
EOL == <<"CR", "LF">>

-----------------------------------------------------------------------------
(* UTF-8.  One character outside ASCII is modelled, U+00E9 (two bytes),    *)
(* and the replacement character U+FFFD (three bytes) that decoding puts   *)
(* in place of an incomplete or stray sequence.                            *)

Utf8Char(c) ==
    CASE c = "U+00E9" -> <<"0xC3", "0xA9">>
      [] c = "U+FFFD" -> <<"0xEF", "0xBF", "0xBD">>
      [] OTHER        -> <<c>>

\* Buffer.from(s, 'utf8')
Utf8Encode(s) == Flatten([i \in 1..Len(s) |-> Utf8Char(s[i])])

IsContinuation(b) == b \in {"0xA9", "0xBF", "0xBD"}
LeadLength(b) == CASE b = "0xC3" -> 2 [] b = "0xEF" -> 3 [] OTHER -> 1

\* buffer.toString('utf8'): a complete sequence gives its character, a
\* truncated sequence or a stray continuation byte gives U+FFFD
RECURSIVE Utf8Decode(_)
Utf8Decode(b) ==
    IF b = <<>> THEN <<>>
    ELSE LET h == Head(b)
             n == LeadLength(h)
         IN  IF IsContinuation(h) THEN <<"U+FFFD">> \o Utf8Decode(Tail(b))
             ELSE IF n = 1 THEN <<h>> \o Utf8Decode(Tail(b))
             ELSE IF Len(b) >= 2 /\ SubSeq(b, 1, 2) = <<"0xC3", "0xA9">>
                  THEN <<"U+00E9">> \o Utf8Decode(SubSeq(b, 3, Len(b)))
             ELSE IF Len(b) >= 3 /\ SubSeq(b, 1, 3) = <<"0xEF", "0xBF", "0xBD">>
                  THEN <<"U+FFFD">> \o Utf8Decode(SubSeq(b, 4, Len(b)))
             ELSE IF Len(b) >= 2 /\ SubSeq(b, 1, 2) = <<"0xEF", "0xBF">>
                  THEN <<"U+FFFD">> \o Utf8Decode(SubSeq(b, 3, Len(b)))
             ELSE <<"U+FFFD">> \o Utf8Decode(Tail(b))

-----------------------------------------------------------------------------
(* LoggerMessage, the current class (src/unnamed/part_001 161-284) and the *)
(* earlier one (src/unnamed/part_001 1-160).                               *)

\* LoggerMessage.level.string[level]
LoggerMessage_level_string(lvl) ==
    IF lvl.t # "number" THEN Undef
    ELSE CASE lvl.v = 0 -> Str(<<"V", "R", "B">>)
           [] lvl.v = 1 -> Str(<<"D", "B", "G">>)
           [] lvl.v = 2 -> Str(<<"I", "N", "F">>)
           [] lvl.v = 3 -> Str(<<"W", "R", "N">>)
           [] lvl.v = 4 -> Str(<<"E", "R", "R">>)
           [] OTHER     -> Undef

\* The strings Date renders; their exact shape is the platform's, so each is
\* a tag for the method followed by the clock value read.
Date_toUTCString(c)        == <<"U", ToString(c)>>
Date_toLocaleString(c)     == <<"L", ToString(c)>>
Date_toLocaleTimeString(c) == <<"T", ToString(c)>>
Date_toLocaleDateString(c) == <<"D", ToString(c)>>
Date_now(c)                == <<ToString(c)>>

Threw == [t |-> "ReferenceError", v |-> <<>>]

\* LoggerMessage.timestamp of the current class
ts_none == 0
ts_utc == 1
ts_locale == 2
ts_localetime == 3
ts_localedate == 4
ts_numeric == 5

\* generateTimestamp(format) of the current class: the numeric case calls a
\* function that is not defined, which throws
generateTimestamp(format, c) ==
    IF format.t # "number" THEN Undef
    ELSE CASE format.v = ts_utc        -> Str(Date_toUTCString(c))
           [] format.v = ts_localedate -> Str(Date_toLocaleDateString(c))
           [] format.v = ts_localetime -> Str(Date_toLocaleTimeString(c))
           [] format.v = ts_numeric    -> Threw
           [] format.v = ts_locale     -> Str(Date_toLocaleString(c))
           [] OTHER                    -> Undef

\* new LoggerMessage({context, level, name, text, timestamp}), current class
LoggerMessage_new(o, c) ==
    LET ts == IF o.timestamp.t # "undefined"
              THEN generateTimestamp(o.timestamp, c) ELSE o.timestamp
    IN  IF ts = Threw THEN [kind |-> "threw"]
        ELSE [kind      |-> "message",
              context   |-> o.context,
              level     |-> IF o.level.t # "undefined"
                            THEN LoggerMessage_level_string(o.level)
                            ELSE o.level,
              name      |-> o.name,
              text      |-> o.text,
              timestamp |-> ts]

\* toString() of the current class
MutToStringOrder(m) ==
    (IF Truthy(m.level) THEN Bracket(Template(m.level)) ELSE <<>>)
    \o (IF Truthy(m.timestamp) THEN Bracket(Template(m.timestamp)) ELSE <<>>)
    \o (IF Truthy(m.name) THEN Bracket(Template(m.name)) ELSE <<>>)
    \o (IF Truthy(m.context) THEN Bracket(Template(m.context)) ELSE <<>>)
    \o (IF Truthy(m.text) THEN Template(m.text) ELSE <<>>)

MutToStringReadsClock(m) ==
    (IF Truthy(m.timestamp) THEN Bracket(Date_toUTCString(clock)) ELSE <<>>)
    \o (IF Truthy(m.level) THEN Bracket(Template(m.level)) ELSE <<>>)
    \o (IF Truthy(m.name) THEN Bracket(Template(m.name)) ELSE <<>>)
    \o (IF Truthy(m.context) THEN Bracket(Template(m.context)) ELSE <<>>)
    \o (IF Truthy(m.text) THEN Template(m.text) ELSE <<>>)

LoggerMessage_toString(m) ==
    (IF Truthy(m.timestamp) THEN Bracket(Template(m.timestamp)) ELSE <<>>)
    \o (IF Truthy(m.level) THEN Bracket(Template(m.level)) ELSE <<>>)
    \o (IF Truthy(m.name) THEN Bracket(Template(m.name)) ELSE <<>>)
    \o (IF Truthy(m.context) THEN Bracket(Template(m.context)) ELSE <<>>)
    \o (IF Truthy(m.text) THEN Template(m.text) ELSE <<>>)

\* LoggerMessage.timestamp of the earlier class
old_ts_utc == 0
old_ts_locale == 1
old_ts_localetime == 2
old_ts_localedate == 3
old_ts_numeric == 4

\* generateTimestamp(format) of the earlier class
old_generateTimestamp(format, c) ==
    IF format.t # "number" THEN <<>>
    ELSE CASE format.v = old_ts_utc        -> Bracket(Date_toUTCString(c))
           [] format.v = old_ts_localedate -> Bracket(Date_toLocaleDateString(c))
           [] format.v = old_ts_localetime -> Bracket(Date_toLocaleTimeString(c))
           [] format.v = old_ts_numeric    -> Bracket(Date_now(c))
           [] format.v = old_ts_locale     -> Bracket(Date_toLocaleString(c))
           [] OTHER                        -> <<>>

\* A parameter default applies when the argument is undefined.
Default(v, d) == IF v.t = "undefined" THEN d ELSE v

\* new LoggerMessage({...}) of the earlier class: `typeof x !== null` compares
\* a string with null and is always true
old_LoggerMessage_new(o, c) ==
    LET context == Default(o.context, Null)
        lvl     == Default(o.level, Null)
        name    == Default(o.name, Null)
        text    == Default(o.text, Str(<<>>))
        ts      == Default(o.timestamp, Null)
    IN  [kind      |-> "old_message",
         context   |-> Str(IF Truthy(context) THEN Bracket(Template(context)) ELSE <<>>),
         level     |-> Str(Bracket(Template(LoggerMessage_level_string(lvl)))),
         name      |-> Str(IF Truthy(name) THEN Bracket(Template(name)) ELSE <<>>),
         text      |-> text,
         timestamp |-> Str(old_generateTimestamp(ts, c))]

\* toString() of the earlier class
old_LoggerMessage_toString(m) ==
    Template(m.timestamp) \o Template(m.level) \o Template(m.name)
        \o Template(m.context) \o Template(m.text)

-----------------------------------------------------------------------------
(* The formatter as a machine: messages are constructed from option        *)
(* objects while the clock advances, and rendered.                         *)

NoCall == [op |-> "none"]

UserCtx  == <<"U", "s", "e", "r">>
AppName  == <<"A", "p", "p">>
TestText == <<"T", "e", "s", "t">>

ContextArgs   == {Undef, Null, Str(<<>>), Str(UserCtx)}
NameArgs      == {Undef, Null, Str(<<>>), Str(AppName)}
TextArgs      == {Undef, Str(<<>>), Str(TestText)}
LevelArgs     == {Undef, Null} \cup {Num(n) : n \in 0..4}
TimestampArgs == {Undef, Null} \cup {Num(n) : n \in ts_none..(ts_numeric + 1)}
OldTimestampArgs == {Undef, Null} \cup {Num(n) : n \in old_ts_utc..old_ts_numeric}

OptionArgs(stamps) ==
    [context : ContextArgs, level : LevelArgs, name : NameArgs,
     text : TextArgs, timestamp : stamps]

NoMessage == [kind |-> "none"]

InitMsg ==
    /\ clock = 0
    /\ message = NoMessage
    /\ rendered = Undef

IdleMsg == InitMsg

\* time passes
Tick ==
    /\ clock < MaxClock
    /\ clock' = clock + 1
    /\ UNCHANGED <<message, rendered, call>>

\* new LoggerMessage(o), current class
NewMessage ==
    \E o \in OptionArgs(TimestampArgs) :
        /\ message = NoMessage
        /\ message' = LoggerMessage_new(o, clock)
        /\ rendered' = Undef
        /\ call' = [op |-> "new", class |-> "current", given |-> o, born |-> clock]
        /\ UNCHANGED clock

\* new LoggerMessage(o), earlier class
OldNewMessage ==
    \E o \in OptionArgs(OldTimestampArgs) :
        /\ message = NoMessage
        /\ message' = old_LoggerMessage_new(o, clock)
        /\ rendered' = Undef
        /\ call' = [op |-> "new", class |-> "old", given |-> o, born |-> clock]
        /\ UNCHANGED clock

\* message.toString()
ToStringCall ==
    /\ message.kind \in {"message", "old_message"}
    /\ call.op \in {"new", "toString"}
    /\ rendered' = Str(IF message.kind = "message"
                       THEN LoggerMessage_toString(message)
                       ELSE old_LoggerMessage_toString(message))
    /\ call' = [op |-> "toString", class |-> call.class, given |-> call.given,
                born |-> call.born, at |-> clock]
    /\ UNCHANGED <<clock, message>>

NextMsg ==
    \/ (Tick /\ UNCHANGED <<v1Vars, fileVars, mongoVars>>)
    \/ (NewMessage /\ UNCHANGED <<v1Vars, fileVars, mongoVars>>)
    \/ (OldNewMessage /\ UNCHANGED <<v1Vars, fileVars, mongoVars>>)
    \/ (ToStringCall /\ UNCHANGED <<v1Vars, fileVars, mongoVars>>)

-----------------------------------------------------------------------------
(* Logger of src/src/logger.js 1-386 (options object, console output) and  *)
(* NodeLogger of src/src/node-logger.js, which adds a file output.         *)

\* Logger.level
lv_verbose == 0
lv_debug == 1
lv_info == 2
lv_warning == 3
lv_error == 4

\* Logger.level.string[level]: a level that is no index of the array gives
\* undefined
Logger_level_string(lvl) ==
    IF lvl.t # "number" THEN Undef
    ELSE CASE lvl.v = lv_verbose -> Str(<<"V", "R", "B">>)
           [] lvl.v = lv_debug   -> Str(<<"D", "B", "G">>)
           [] lvl.v = lv_info    -> Str(<<"I", "N", "F">>)
           [] lvl.v = lv_warning -> Str(<<"W", "R", "N">>)
           [] lvl.v = lv_error   -> Str(<<"E", "R", "R">>)
           [] OTHER              -> Undef

\* Logger.level.stringmap.get(name)
Logger_level_stringmap(name) ==
    CASE name = <<"verbose">> -> Num(lv_verbose)
      [] name = <<"debug">>   -> Num(lv_debug)
      [] name = <<"info">>    -> Num(lv_info)
      [] name = <<"warning">> -> Num(lv_warning)
      [] name = <<"error">>   -> Num(lv_error)
      [] OTHER                -> Undef

\* a < b of JavaScript for a number b: a string that is no numeral converts
\* to NaN, and every comparison with NaN is false
JsLess(a, b) == a.t = "number" /\ b.t = "number" /\ a.v < b.v

\* Logger.level.isValidLevel(level)
Logger_isValidLevel(lvl) ==
    lvl.t = "number" /\ lvl.v >= lv_verbose /\ lvl.v <= lv_error

\* An object payload, and what string concatenation makes of it.
Obj == [t |-> "object", v |-> <<>>]
ObjectText == <<"[object Object]">>

\* createMessage(message, level)
Logger_createMessage(o, msg, lvl, c) ==
    (IF o.ts_state THEN Bracket(Date_toLocaleString(c)) ELSE <<>>)
    \o Bracket(Template(Logger_level_string(lvl)))
    \o Bracket(AppName)
    \o (IF Truthy(o.context) THEN Bracket(Template(o.context)) ELSE <<>>)
    \o (IF msg.t = "string" THEN msg.v ELSE <<>>)

\* log(message, level): the test that returns before anything is written
MutSuppressNothing(lvl, threshold) == FALSE

Logger_log_returns_early(lvl, threshold) == JsLess(lvl, Num(threshold))

\* Logger.logMessage(message): console.log of a string, or of a marker and
\* then the object
Logger_logMessage(out, msg) ==
    IF msg.t = "string" THEN Append(out, msg)
    ELSE out \o <<Str(<<"logging object">>), msg>>

\* NodeLogger.appendToLogFile(text): fs.appendFile(file, text + endOfLine)
NodeLogger_appendToLogFile(file, msg) ==
    file \o Utf8Encode((IF msg.t = "string" THEN msg.v ELSE ObjectText) \o EOL)

\* what log(message, level) returns: the logger itself when it returns
\* early and when the console prints, the promise of appendToLogFile when the
\* file is written, undefined when there is no output
NodeLogger_log_returns(lvl) ==
    IF Logger_log_returns_early(lvl, options.level) THEN "this"
    ELSE IF options.out_console THEN "this"
    ELSE IF options.out_file # <<>> THEN "promise"
    ELSE "undefined"

V1Payloads == {Str(TestText), Obj}
V1LevelArgs == {Undef} \cup {Num(n) : n \in lv_verbose..lv_error}
                 \cup {Str(<<"debug">>), Str(<<"trace">>)}

InitV1 ==
    /\ options \in [level : {lv_info}, context : {Null, Str(UserCtx)},
                    ts_state : BOOLEAN, out_console : {TRUE},
                    out_file : {<<>>}]
    /\ console_out = <<>>
    /\ logfile = <<>>

IdleV1 ==
    /\ options = [level |-> lv_info, context |-> Null, ts_state |-> FALSE,
                  out_console |-> TRUE, out_file |-> <<>>]
    /\ console_out = <<>>
    /\ logfile = <<>>

\* setLogLevel(level)
SetLogLevel ==
    \E arg \in V1LevelArgs \ {Undef} :
        LET lvl == IF arg.t = "string" THEN Logger_level_stringmap(arg.v) ELSE arg
        IN  /\ IF ~Logger_isValidLevel(lvl)
               THEN UNCHANGED options
               ELSE options' = [options EXCEPT !.level = lvl.v]
            /\ call' = [op |-> "setLogLevel", arg |-> arg,
                        valid |-> Logger_isValidLevel(lvl)]
            /\ UNCHANGED <<console_out, logfile>>

\* setConsoleState(state)
SetConsoleState ==
    \E b \in BOOLEAN :
        /\ options' = [options EXCEPT !.out_console = b]
        /\ call' = [op |-> "setConsoleState", arg |-> b]
        /\ UNCHANGED <<console_out, logfile>>

\* setLogFileOutput(filepath): isValidFilepath is "non-empty"
SetLogFileOutput ==
    \E path \in {<<>>, <<"log.txt">>} :
        /\ options' = [options EXCEPT !.out_file = path]
        /\ call' = [op |-> "setLogFileOutput", arg |-> path]
        /\ UNCHANGED <<console_out, logfile>>

\* NodeLogger: log(message, level) down to logMessage(message)
NodeLog(payload, arg, op) ==
    LET lvl == IF arg.t = "undefined" THEN Num(options.level) ELSE arg
        msg == IF payload.t = "string"
               THEN Str(Logger_createMessage(options, payload, lvl, clock))
               ELSE payload
    IN  /\ Len(console_out) < MaxOut
        /\ Len(logfile) < MaxOut * Len(ObjectText \o EOL)
        /\ call' = [op |-> op, payload |-> payload, level |-> lvl,
                    threshold |-> options.level,
                    returned |-> NodeLogger_log_returns(lvl)]
        /\ UNCHANGED options
        /\ IF Logger_log_returns_early(lvl, options.level)
           THEN UNCHANGED <<console_out, logfile>>
           ELSE IF options.out_console
           THEN /\ console_out' = Logger_logMessage(console_out, msg)
                /\ UNCHANGED logfile
           ELSE IF options.out_file # <<>>
           THEN /\ logfile' = NodeLogger_appendToLogFile(logfile, msg)
                /\ UNCHANGED console_out
           ELSE UNCHANGED <<console_out, logfile>>

\* log(message, level) and log(message)
LogCall == \E payload \in V1Payloads, arg \in V1LevelArgs : NodeLog(payload, arg, "log")

\* verbose(message), debug(message), info(message), warning(message),
\* error(message): log(message, Logger.level.<method>)
LevelMethodCall ==
    \E payload \in V1Payloads, n \in lv_verbose..lv_error :
        NodeLog(payload, Num(n), "method")

NextV1 ==
    \/ (SetLogLevel /\ UNCHANGED <<msgVars, fileVars, mongoVars>>)
    \/ (SetConsoleState /\ UNCHANGED <<msgVars, fileVars, mongoVars>>)
    \/ (SetLogFileOutput /\ UNCHANGED <<msgVars, fileVars, mongoVars>>)
    \/ (LogCall /\ UNCHANGED <<msgVars, fileVars, mongoVars>>)
    \/ (LevelMethodCall /\ UNCHANGED <<msgVars, fileVars, mongoVars>>)

-----------------------------------------------------------------------------
(* FirstLineTransform (src/src/firstLineTransform.js).                     *)

\* the transform as constructed; pushed is what it has pushed downstream
NewTransform == [firstline_buffer |-> <<>>, bytes_removed |-> 0, pushed |-> <<>>]

\* _transform(chunk, encoding, callback)
MutTransformKeepsEol(t, chunk) ==
    IF t.bytes_removed # 0
    THEN [t EXCEPT !.pushed = @ \o chunk]
    ELSE LET buffer == t.firstline_buffer \o Utf8Decode(chunk)
             eol_start_index == IndexOf(buffer, EOL)
         IN  IF eol_start_index > -1
             THEN [firstline_buffer |-> <<>>,
                   bytes_removed    |-> Len(Slice(buffer, 0, eol_start_index + 1)),
                   pushed           |-> t.pushed
                       \o Utf8Encode(SliceFrom(buffer, eol_start_index + 1))]
             ELSE [t EXCEPT !.firstline_buffer = buffer]

FirstLineTransform_transform(t, chunk) ==
    IF t.bytes_removed # 0
    THEN [t EXCEPT !.pushed = @ \o chunk]
    ELSE LET buffer == t.firstline_buffer \o Utf8Decode(chunk)
             eol_start_index == IndexOf(buffer, EOL)
             eol_end_index == eol_start_index + Len(EOL)
         IN  IF eol_start_index > -1
             THEN [firstline_buffer |-> <<>>,
                   bytes_removed    |-> Len(Slice(buffer, 0, eol_end_index)),
                   pushed           |-> t.pushed
                       \o Utf8Encode(SliceFrom(buffer, eol_end_index))]
             ELSE [t EXCEPT !.firstline_buffer = buffer]

\* The chunks fs.createReadStream delivers: highWaterMark bytes each, the
\* last one shorter.  The default highWaterMark of a file stream is 64 KiB.
HighWaterMark == 64 * 1024

RECURSIVE ReadChunks(_, _)
ReadChunks(data, hwm) ==
    IF data = <<>> THEN <<>>
    ELSE IF Len(data) <= hwm THEN <<data>>
    ELSE <<SubSeq(data, 1, hwm)>> \o ReadChunks(SubSeq(data, hwm + 1, Len(data)), hwm)

\* read.pipe(transform): every chunk goes through _transform, in order
RECURSIVE Piped(_, _)
Piped(t, chunks) ==
    IF chunks = <<>> THEN t
    ELSE Piped(FirstLineTransform_transform(t, Head(chunks)), Tail(chunks))

-----------------------------------------------------------------------------
(* FileLogger (src/src/logger.js 387-644).  The operators take and give    *)
(* the record w = [logger, disk, crashed].                                 *)
(*                                                                         *)
(* logger.stream is "opening" from createWriteStream until the file is     *)
(* open, "open" while it writes to the file at filepath, "unlinked" while  *)
(* it writes to a file that has been removed from the directory, and       *)
(* "closed" after end().  logger.queued holds the writes the stream has    *)
(* accepted and not yet written, oldest first.                             *)

FileAbsent == [exists |-> FALSE, data |-> <<>>]
File(d)    == [exists |-> TRUE, data |-> d]

\* the open that createWriteStream(filepath, {flags: 'a'}) started completes:
\* the file is created when it is not there
StreamOpens(w) ==
    IF w.logger.stream = "opening"
    THEN [w EXCEPT !.logger.stream = "open",
                   !.disk.file = IF @.exists THEN @ ELSE File(<<>>)]
    ELSE w

\* the stream writes the oldest write it holds, to the file it has open
StreamWrites(w) ==
    LET o == StreamOpens(w)
    IN  [o EXCEPT !.logger.queued = Tail(@),
                  !.disk.file = IF o.logger.stream = "open"
                                THEN File(@.data \o Head(o.logger.queued))
                                ELSE @]

\* the stream writes every write it holds
RECURSIVE StreamFlushes(_)
StreamFlushes(w) ==
    IF w.logger.queued = <<>> THEN StreamOpens(w)
    ELSE StreamFlushes(StreamWrites(w))

\* open()
FileLogger_open(w) == [w EXCEPT !.logger.stream = "opening"]

\* append(text), up to the write callback that resolves the promise
MutAppendNoEol(w, text) ==
    LET o == StreamFlushes(w)
    IN  [o EXCEPT !.logger.filesize = @ + Len(text \o EOL),
                  !.disk.file = IF o.logger.stream = "open"
                                THEN File(@.data \o Utf8Encode(text))
                                ELSE @]

FileLogger_append(w, text) ==
    LET line == text \o EOL
        o == StreamFlushes(w)
    IN  [o EXCEPT !.logger.filesize = @ + Len(line),
                  !.disk.file = IF o.logger.stream = "open"
                                THEN File(@.data \o Utf8Encode(line))
                                ELSE @]

\* append(text), up to the return of stream.write: the write is accepted
FileLogger_append_begin(w, text) ==
    LET line == text \o EOL
    IN  [w EXCEPT !.logger.filesize = @ + Len(line),
                  !.logger.queued = Append(@, Utf8Encode(line))]

\* delete(): unlinkSync, whose error is swallowed
MutDeleteThrows(w) ==
    IF ~w.disk.file.exists THEN [w EXCEPT !.crashed = TRUE]
    ELSE [w EXCEPT !.disk.file = FileAbsent,
                   !.logger.stream = IF @ = "open" THEN "unlinked" ELSE @]

FileLogger_delete(w) ==
    [w EXCEPT !.disk.file = FileAbsent,
              !.logger.stream = IF @ = "open" THEN "unlinked" ELSE @]

\* end(), up to the 'close' event that resolves the promise
FileLogger_end(w) == [StreamFlushes(w) EXCEPT !.logger.stream = "closed"]

\* clear()
MutClearKeepsFile(w) == FileLogger_open(FileLogger_end(w))

FileLogger_clear(w) == FileLogger_open(FileLogger_delete(FileLogger_end(w)))

\* deleteFirstLine(): the streams are created (the temporary file with them)
FileLogger_deleteFirstLine_begin(w) == [w EXCEPT !.disk.tmp = File(<<>>)]

\* deleteFirstLine(): the 'finish' handler, t being the transform
FileLogger_deleteFirstLine_finish(w, t) ==
    LET sized   == [w EXCEPT !.logger.filesize =
                        IF @ - t.bytes_removed < 0 THEN 0 ELSE @ - t.bytes_removed]
        gone    == FileLogger_delete(FileLogger_end(sized))
        renamed == [gone EXCEPT !.disk.file = gone.disk.tmp,
                                !.disk.tmp = FileAbsent]
    IN  FileLogger_open(renamed)

\* deleteFirstLine(): the 'finish' handler when renameSync throws: the stream
\* has been ended and the file unlinked, open() and resolve() are not reached
FileLogger_deleteFirstLine_rename_throws(w, t) ==
    LET sized == [w EXCEPT !.logger.filesize =
                      IF @ - t.bytes_removed < 0 THEN 0 ELSE @ - t.bytes_removed]
    IN  FileLogger_delete(FileLogger_end(sized))

\* deleteFirstLine(), from the call to the settled promise.  opened_first says
\* whether a pending open of the write stream completes before the read
\* stream opens the file.  A file that is not there makes the read stream
\* emit 'error', which has no listener.
FileLogger_deleteFirstLine(w, opened_first) ==
    LET started == FileLogger_deleteFirstLine_begin(
                       IF opened_first THEN StreamOpens(w) ELSE w)
    IN  IF ~started.disk.file.exists
        THEN [started EXCEPT !.crashed = TRUE]
        ELSE LET t == Piped(NewTransform,
                            ReadChunks(started.disk.file.data, HighWaterMark))
             IN  FileLogger_deleteFirstLine_finish(
                     [started EXCEPT !.disk.tmp = File(t.pushed)], t)

\* checkLogCount(): the condition
MutRotationNeverDue(l) == FALSE

MutRotationIgnoresZero(l) ==
    l.log_count >= l.maxlogs \/ l.filesize >= l.maxsize

FileLogger_rotation_due(l) ==
    \/ l.maxlogs # 0 /\ l.log_count >= l.maxlogs
    \/ l.maxsize # 0 /\ l.filesize >= l.maxsize

\* checkLogCount(); createNewFile() has an empty body
FileLogger_checkLogCount(w, opened_first) ==
    IF FileLogger_rotation_due(w.logger)
    THEN IF w.logger.multiplefiles THEN w
         ELSE FileLogger_deleteFirstLine(w, opened_first)
    ELSE w

\* _verbose, _debug, _info, _warning, _error(message), console: false
FileLogger_output(w, msg) == FileLogger_append(w, LoggerMessage_toString(msg))

-----------------------------------------------------------------------------
(* The base class of FileLogger.  Its file is not among the sources; log() *)
(* and createMessage() follow the logger contract of the specification     *)
(* (Logger Core, steps 1 to 5; Rotation: the check is evaluated before the *)
(* new record is counted and written).                                     *)

\* createMessage(text, level): a LoggerMessage from the logger's fields
Logger2_createMessage(l, text, lvl, c) ==
    LoggerMessage_new([context |-> l.context, level |-> Num(lvl),
                       name |-> Str(AppName), text |-> text,
                       timestamp |-> Num(l.timestamp)], c)

\* log(payload, level): gives the new w, whether the call logged, and the
\* text it handed to append()
MutLogIgnoresEnabled(w, payload, arg, opened_first, c) ==
    LET lvl     == IF arg.t = "undefined" THEN w.logger.level ELSE arg.v
        msg     == Logger2_createMessage(w.logger, payload, lvl, c)
        checked == [FileLogger_checkLogCount(w, opened_first)
                        EXCEPT !.logger.log_count = @ + 1]
    IN  IF lvl < w.logger.level
        THEN [w |-> w, result |-> "not logged", text |-> <<>>]
        ELSE IF checked.crashed
        THEN [w |-> checked, result |-> "pending", text |-> <<>>]
        ELSE [w |-> FileLogger_output(checked, msg), result |-> "logged",
              text |-> LoggerMessage_toString(msg)]

Logger2_log(w, payload, arg, opened_first, c) ==
    LET lvl     == IF arg.t = "undefined" THEN w.logger.level ELSE arg.v
        msg     == Logger2_createMessage(w.logger, payload, lvl, c)
        checked == [FileLogger_checkLogCount(w, opened_first)
                        EXCEPT !.logger.log_count = @ + 1]
    IN  IF ~w.logger.enabled
        THEN [w |-> w, result |-> "not logged", text |-> <<>>]
        ELSE IF lvl < w.logger.level
        THEN [w |-> w, result |-> "not logged", text |-> <<>>]
        ELSE IF checked.crashed
        THEN [w |-> checked, result |-> "pending", text |-> <<>>]
        ELSE [w |-> FileLogger_output(checked, msg), result |-> "logged",
              text |-> LoggerMessage_toString(msg)]

-----------------------------------------------------------------------------
(* The FileLogger as a machine.  Every call is awaited before the next.    *)

World == [logger |-> logger, disk |-> disk, crashed |-> crashed]

SetWorld(w) ==
    /\ logger' = w.logger
    /\ disk' = w.disk
    /\ crashed' = w.crashed

FileTexts == {Str(<<"a">>), Str(<<"a", "a", "a">>),
              Str(<<"a", "CR", "LF", "b">>)}
OpsTexts == {Str(<<"a">>), Str(<<"U+00E9">>)}
FileLevelArgs == {Undef, Num(lv_debug), Num(lv_info)}
SizeLimits == {0, 16}

NoPipe == [on |-> FALSE, rest |-> <<>>, t |-> NewTransform]

\* new FileLogger("App", {filepath, console: false, timestamp: none, maxlogs,
\* maxsize, multiplefiles}) on a path where no file is
NewFileLogger(ml, ms, mf) ==
    [enabled |-> TRUE, level |-> lv_info, context |-> Undef,
     timestamp |-> ts_none, maxlogs |-> ml, maxsize |-> ms,
     multiplefiles |-> mf, log_count |-> 0, filesize |-> 0,
     stream |-> "opening", queued |-> <<>>]

InitFile ==
    /\ \E ml \in 0..MaxLimit, ms \in SizeLimits, mf \in BOOLEAN :
           logger = NewFileLogger(ml, ms, mf)
    /\ disk = [file |-> FileAbsent, tmp |-> FileAbsent]
    /\ crashed = FALSE
    /\ pipe = NoPipe
    /\ emitted = <<>>
    /\ used = {}

IdleFile ==
    /\ logger = NewFileLogger(0, 0, FALSE)
    /\ disk = [file |-> FileAbsent, tmp |-> FileAbsent]
    /\ crashed = FALSE
    /\ pipe = NoPipe
    /\ emitted = <<>>
    /\ used = {}

\* the stream's pending open completes on its own
FsOpenDone ==
    /\ ~crashed
    /\ logger.stream = "opening"
    /\ SetWorld(StreamOpens(World))
    /\ call' = [op |-> "fs.open"]
    /\ UNCHANGED <<pipe, emitted, used>>

\* logger.enabled = b
SetEnabled ==
    \E b \in BOOLEAN :
        /\ ~crashed
        /\ b # logger.enabled
        /\ logger' = [logger EXCEPT !.enabled = b]
        /\ call' = [op |-> "enabled", arg |-> b]
        /\ UNCHANGED <<disk, crashed, pipe, emitted, used>>

\* await logger.log(payload, level), or the method of that level
FileLog(texts, max) ==
    \E payload \in texts, arg \in FileLevelArgs, opened_first \in BOOLEAN :
        LET r == Logger2_log(World, payload, arg, opened_first, clock)
        IN  /\ ~crashed
            /\ Len(emitted) < max
            /\ SetWorld(r.w)
            /\ emitted' = IF r.result = "logged" THEN Append(emitted, r.text)
                          ELSE emitted
            /\ used' = used \cup {"log"}
            /\ call' = [op |-> "log", payload |-> payload,
                        level |-> IF arg.t = "undefined" THEN logger.level
                                  ELSE arg.v,
                        result |-> r.result, before |-> World]
            /\ UNCHANGED pipe

FileLogCall == FileLog(FileTexts, MaxCalls)

OpsLogCall == FileLog(OpsTexts, MaxOps)

\* await logger.append(text)
FileAppendCall ==
    \E text \in OpsTexts :
        /\ ~crashed
        /\ Len(emitted) < MaxOps
        /\ SetWorld(FileLogger_append(World, text.v))
        /\ emitted' = Append(emitted, text.v)
        /\ used' = used \cup {"append"}
        /\ call' = [op |-> "append", result |-> "resolved", before |-> World]
        /\ UNCHANGED pipe

\* await logger.deleteFirstLine(); the promise stays pending when the read
\* stream fails
FileDeleteFirstLineCall ==
    \E opened_first \in BOOLEAN :
        /\ ~crashed
        /\ SetWorld(FileLogger_deleteFirstLine(World, opened_first))
        /\ used' = used \cup {"deleteFirstLine"}
        /\ call' = [op |-> "deleteFirstLine",
                    result |-> IF crashed' THEN "pending" ELSE "resolved",
                    before |-> World]
        /\ UNCHANGED <<pipe, emitted>>

\* await logger.clear()
FileClearCall ==
    /\ ~crashed
    /\ SetWorld(FileLogger_clear(World))
    /\ used' = used \cup {"clear"}
    /\ call' = [op |-> "clear", result |-> "resolved", before |-> World]
    /\ UNCHANGED <<pipe, emitted>>

\* logger.delete()
FileDeleteCall ==
    /\ ~crashed
    /\ SetWorld(FileLogger_delete(World))
    /\ used' = used \cup {"delete"}
    /\ call' = [op |-> "delete", before |-> World]
    /\ UNCHANGED <<pipe, emitted>>

NextFile ==
    \/ (FsOpenDone /\ UNCHANGED <<msgVars, v1Vars, mongoVars>>)
    \/ (SetEnabled /\ UNCHANGED <<msgVars, v1Vars, mongoVars>>)
    \/ (FileLogCall /\ UNCHANGED <<msgVars, v1Vars, mongoVars>>)

NextOps ==
    \/ (FsOpenDone /\ UNCHANGED <<msgVars, v1Vars, mongoVars>>)
    \/ (OpsLogCall /\ UNCHANGED <<msgVars, v1Vars, mongoVars>>)
    \/ (FileAppendCall /\ UNCHANGED <<msgVars, v1Vars, mongoVars>>)
    \/ (FileDeleteFirstLineCall /\ UNCHANGED <<msgVars, v1Vars, mongoVars>>)
    \/ (FileClearCall /\ UNCHANGED <<msgVars, v1Vars, mongoVars>>)
    \/ (FileDeleteCall /\ UNCHANGED <<msgVars, v1Vars, mongoVars>>)

-----------------------------------------------------------------------------
(* deleteFirstLine() chunk by chunk: the read stream delivers the file in  *)
(* chunks of any sizes, on a logger whose file was written by append().    *)

CutLines == {<<>>, <<"a">>, <<"U+00E9">>, <<"a", "U+00E9">>}

\* the texts of files of n lines
RECURSIVE LinesOf(_)
LinesOf(n) ==
    IF n = 0 THEN {<<>>}
    ELSE {l \o EOL \o rest : l \in CutLines, rest \in LinesOf(n - 1)}

CutFiles == UNION {LinesOf(n) : n \in 0..MaxLines}

InitCut ==
    /\ \E text \in CutFiles :
        /\ logger = [NewFileLogger(0, 0, FALSE) EXCEPT !.filesize = Len(text),
                                                !.stream = "open"]
        /\ disk = [file |-> File(Utf8Encode(text)), tmp |-> FileAbsent]
    /\ crashed = FALSE
    /\ pipe = NoPipe
    /\ emitted = <<>>
    /\ used = {}

\* deleteFirstLine() is called: the streams are created and piped
CutBegin ==
    /\ ~pipe.on
    /\ "deleteFirstLine" \notin used
    /\ disk.file.exists
    /\ SetWorld(FileLogger_deleteFirstLine_begin(World))
    /\ pipe' = [on |-> TRUE, rest |-> disk.file.data, t |-> NewTransform]
    /\ used' = used \cup {"deleteFirstLine"}
    /\ call' = [op |-> "deleteFirstLine", before |-> World, done |-> FALSE,
                chunks |-> 0, split |-> FALSE, failed |-> "none"]
    /\ UNCHANGED emitted

\* the read stream delivers the next chunk, which the transform handles and
\* whose output the write stream puts into the temporary file; call.split
\* records that a chunk ended inside a character
CutRead ==
    \E n \in 1..Len(pipe.rest) :
        LET t == FirstLineTransform_transform(pipe.t, SubSeq(pipe.rest, 1, n))
        IN  /\ pipe.on
            /\ pipe' = [pipe EXCEPT !.rest = SubSeq(@, n + 1, Len(@)), !.t = t]
            /\ disk' = [disk EXCEPT !.tmp = File(t.pushed)]
            /\ call' = [call EXCEPT
                            !.chunks = IF @ < 3 THEN @ + 1 ELSE @,
                            !.split = @ \/ (/\ n < Len(pipe.rest)
                                            /\ IsContinuation(pipe.rest[n + 1]))]
            /\ UNCHANGED <<logger, crashed, emitted, used>>

\* the write stream emits 'finish'
CutFinish ==
    /\ pipe.on
    /\ pipe.rest = <<>>
    /\ SetWorld(FileLogger_deleteFirstLine_finish(World, pipe.t))
    /\ pipe' = NoPipe
    /\ call' = [call EXCEPT !.done = TRUE]
    /\ UNCHANGED <<emitted, used>>

\* a read of the file fails: the read stream emits 'error', which has no
\* listener
CutReadFails ==
    /\ pipe.on
    /\ pipe.rest # <<>>
    /\ crashed' = TRUE
    /\ pipe' = NoPipe
    /\ call' = [call EXCEPT !.failed = "read"]
    /\ UNCHANGED <<logger, disk, emitted, used>>

\* a write to the temporary file fails: the write stream emits 'error' and
\* the promise is rejected
CutWriteFails ==
    /\ pipe.on
    /\ pipe.t.pushed # <<>>
    /\ pipe' = NoPipe
    /\ call' = [call EXCEPT !.failed = "write"]
    /\ UNCHANGED <<logger, disk, crashed, emitted, used>>

\* the write stream emits 'finish' and renameSync throws in the handler
CutRenameFails ==
    /\ pipe.on
    /\ pipe.rest = <<>>
    /\ SetWorld(FileLogger_deleteFirstLine_rename_throws(World, pipe.t))
    /\ pipe' = NoPipe
    /\ call' = [call EXCEPT !.failed = "rename"]
    /\ UNCHANGED <<emitted, used>>

NextCut ==
    \/ (CutBegin /\ UNCHANGED <<msgVars, v1Vars, mongoVars>>)
    \/ (CutRead /\ UNCHANGED <<msgVars, v1Vars, mongoVars>>)
    \/ (CutFinish /\ UNCHANGED <<msgVars, v1Vars, mongoVars>>)
    \/ (CutReadFails /\ UNCHANGED <<msgVars, v1Vars, mongoVars>>)
    \/ (CutWriteFails /\ UNCHANGED <<msgVars, v1Vars, mongoVars>>)
    \/ (CutRenameFails /\ UNCHANGED <<msgVars, v1Vars, mongoVars>>)

-----------------------------------------------------------------------------
(* Appends that are not awaited: the stream holds their writes while       *)
(* clear() or deleteFirstLine() is called.                                 *)

QueueFiles == {<<>>, <<"a">> \o EOL, <<"a">> \o EOL \o <<"b">> \o EOL}

QueueTexts == {<<"x">>, <<"y">>}

InitQueue ==
    /\ \E text \in QueueFiles :
        /\ logger = [NewFileLogger(0, 0, FALSE) EXCEPT !.filesize = Len(text),
                                                !.stream = "open"]
        /\ disk = [file |-> File(Utf8Encode(text)), tmp |-> FileAbsent]
    /\ crashed = FALSE
    /\ pipe = NoPipe
    /\ emitted = <<>>
    /\ used = {}

\* logger.append(text), not awaited
QueueAppend ==
    \E text \in QueueTexts :
        /\ ~pipe.on
        /\ Len(emitted) < MaxQueued
        /\ SetWorld(FileLogger_append_begin(World, text))
        /\ emitted' = Append(emitted, text)
        /\ used' = used \cup {"append"}
        /\ call' = [op |-> "append", result |-> "pending", before |-> World]
        /\ UNCHANGED pipe

\* the stream writes the oldest write it holds
StreamWriteDone ==
    /\ logger.queued # <<>>
    /\ logger.stream # "closed"
    /\ SetWorld(StreamWrites(World))
    /\ UNCHANGED <<pipe, emitted, used, call>>

\* await logger.clear(), when no deleteFirstLine() is under way
QueueClear == ~pipe.on /\ FileClearCall

NextQueue ==
    \/ (QueueAppend /\ UNCHANGED <<msgVars, v1Vars, mongoVars>>)
    \/ (StreamWriteDone /\ UNCHANGED <<msgVars, v1Vars, mongoVars>>)
    \/ (FsOpenDone /\ UNCHANGED <<msgVars, v1Vars, mongoVars>>)
    \/ (QueueClear /\ UNCHANGED <<msgVars, v1Vars, mongoVars>>)
    \/ (CutBegin /\ UNCHANGED <<msgVars, v1Vars, mongoVars>>)
    \/ (CutRead /\ UNCHANGED <<msgVars, v1Vars, mongoVars>>)
    \/ (CutFinish /\ UNCHANGED <<msgVars, v1Vars, mongoVars>>)

-----------------------------------------------------------------------------
(* Structured payloads of the MongoDbLogger.  An object is the sequence of *)
(* its properties in insertion order; an identifier object (ObjectId) is a *)
(* value of its own, holding its hexadecimal string.                       *)

JsObject(props) == [t |-> "object", v |-> props]
ObjectId(hex)   == [t |-> "objectid", v |-> hex]
Prop(k, val)    == [k |-> k, val |-> val]

\* object[k] = val: a key the object has keeps its place
ObjSet(props, k, val) ==
    IF \E i \in 1..Len(props) : props[i].k = k
    THEN [i \in 1..Len(props) |->
              IF props[i].k = k THEN Prop(k, val) ELSE props[i]]
    ELSE Append(props, Prop(k, val))

\* i.replace(/[$.]/g, '')
CleanKey(k) == SelectSeq(k, LAMBDA ch : ch \notin {"$", "."})

\* cloneAndFilterObject(object): the loop over the properties left to copy,
\* with the clone built so far
RECURSIVE cloneAndFilterObject_for(_, _)
MutCloneKeepsKeys(object) == JsObject(object.v)

cloneAndFilterObject(object) == JsObject(cloneAndFilterObject_for(object.v, <<>>))

cloneAndFilterObject_for(props, clone) ==
    IF props = <<>> THEN clone
    ELSE LET p == Head(props)
             copied ==
                 IF p.val.t = "objectid"
                 THEN ObjSet(clone, p.k, Str(p.val.v))
                 ELSE IF p.val.t = "object"
                 THEN ObjSet(clone, CleanKey(p.k), cloneAndFilterObject(p.val))
                 ELSE ObjSet(clone, CleanKey(p.k), p.val)
         IN  cloneAndFilterObject_for(Tail(props), copied)

\* a key of the value, at any nesting level, holds $ or .
RECURSIVE HasReservedKey(_)
HasReservedKey(val) ==
    /\ val.t = "object"
    /\ \E i \in 1..Len(val.v) :
           \/ \E j \in 1..Len(val.v[i].k) : val.v[i].k[j] \in {"$", "."}
           \/ HasReservedKey(val.v[i].val)

\* an identifier object is among the values, at any nesting level
RECURSIVE HasObjectId(_)
HasObjectId(val) ==
    \/ val.t = "objectid"
    \/ /\ val.t = "object"
       /\ \E i \in 1..Len(val.v) : HasObjectId(val.v[i].val)

\* the payloads: objects nested to MaxDepth, of at most two properties, the
\* first of which may hold an object
DocKeys   == {<<"a">>, <<"$", "a">>, <<"a", ".">>}
DocLeaves == {Num(1), Null, ObjectId(<<"5", "f">>)}

RECURSIVE DocObjects(_)
DocObjects(d) ==
    IF d = 0 THEN {JsObject(<<>>)}
    ELSE LET first == {Prop(k, val) : k \in DocKeys,
                                      val \in DocLeaves \cup DocObjects(d - 1)}
             second == {Prop(k, val) : k \in DocKeys, val \in DocLeaves}
         IN  {JsObject(<<>>)}
             \cup {JsObject(<<p>>) : p \in first}
             \cup {o \in {JsObject(<<p, q>>) : p \in first, q \in second} :
                       o.v[1].k # o.v[2].k}

-----------------------------------------------------------------------------
(* MongoDbLogger (src/unnamed/part_000).  The store executes the operations *)
(* it has been sent one at a time, in any order: the driver sends them over *)
(* the connections of a pool.  An operation whose promise the logger        *)
(* returns is awaited by the caller; the others are not.                    *)

\* a >= b of JavaScript: false when b is undefined
JsGreaterEq(a, b) == a.t = "number" /\ b.t = "number" /\ a.v >= b.v

\* new MongoDbLogger("App", {collection, console: false, timestamp: none,
\* maxlogs}); this.maxlog is never assigned
NewMongoDbLogger(ml) ==
    [enabled |-> TRUE, level |-> lv_info, context |-> Null,
     timestamp |-> ts_none, maxlogs |-> ml, maxlog |-> Undef, log_count |-> 0,
     objects_to_string |-> FALSE]

InsertOne(doc) == [kind |-> "insertOne", doc |-> doc, awaited |-> FALSE]
DeleteOne      == [kind |-> "deleteOne", doc |-> Undef, awaited |-> TRUE]
DeleteMany     == [kind |-> "deleteMany", doc |-> Undef, awaited |-> FALSE]

\* what the store makes of an operation: insertOne(doc), deleteOne({}) and
\* deleteMany({}) on a collection in insertion order
MutDeleteOneRemovesNewest(docs, op) ==
    CASE op.kind = "insertOne"  -> Append(docs, op.doc)
      [] op.kind = "deleteOne"  -> IF docs = <<>> THEN docs
                                   ELSE SubSeq(docs, 1, Len(docs) - 1)
      [] op.kind = "deleteMany" -> <<>>

Collection_execute(docs, op) ==
    CASE op.kind = "insertOne"  -> Append(docs, op.doc)
      [] op.kind = "deleteOne"  -> IF docs = <<>> THEN docs ELSE Tail(docs)
      [] op.kind = "deleteMany" -> <<>>

\* msg instanceof LoggerMessage
IsLoggerMessage(msg) == "kind" \in DOMAIN msg

\* typeof v === 'object'
TypeofObject(v) == v.t \in {"object", "objectid", "null"}

\* msg.text, of a LoggerMessage or of any other value
TextOf(msg) ==
    IF IsLoggerMessage(msg) THEN msg.text
    ELSE IF msg.t = "object"
            /\ \E i \in 1..Len(msg.v) : msg.v[i].k = <<"text">>
    THEN (CHOOSE q \in {msg.v[i] : i \in 1..Len(msg.v)} :
              q.k = <<"text">>).val
    ELSE Undef

\* insertMessage(message): the operations it sends; nothing is returned
MutInsertUnfiltered(msg) == <<InsertOne(msg)>>

MongoDbLogger_insertMessage(msg) ==
    LET filtered == cloneAndFilterObject(TextOf(msg))
    IN  <<InsertOne(IF ~TypeofObject(TextOf(msg)) THEN msg
                    ELSE IF IsLoggerMessage(msg)
                    THEN [msg EXCEPT !.text = filtered]
                    ELSE JsObject(ObjSet(msg.v, <<"text">>, filtered)))>>

\* processMessage(message, level): a plain object becomes the text of a
\* LoggerMessage unless objects_to_string is set
MongoDbLogger_processMessage(l, msg, lvl, c) ==
    IF ~IsLoggerMessage(msg) /\ TypeofObject(msg) /\ ~l.objects_to_string
    THEN Logger2_createMessage(l, msg, lvl, c)
    ELSE msg

\* clear(): the operations it sends; nothing is returned
MongoDbLogger_clear == <<DeleteMany>>

\* deleteFirstDocument(): the operation it sends, whose promise it returns
MongoDbLogger_deleteFirstDocument == <<DeleteOne>>

\* checkLogCount(): the condition, which compares with this.maxlog
MongoDbLogger_rotation_due(l) ==
    l.maxlogs # 0 /\ JsGreaterEq(Num(l.log_count), l.maxlog)

\* checkLogCount(): the operations it sends and awaits
MongoDbLogger_checkLogCount(l) ==
    IF MongoDbLogger_rotation_due(l) THEN MongoDbLogger_deleteFirstDocument
    ELSE <<>>

\* JSON.stringify(val), the serialization of a structured payload
RECURSIVE JsonStringify(_)
RECURSIVE JsonProps(_)
JsonProps(props) ==
    IF props = <<>> THEN <<>>
    ELSE <<"\"">> \o Head(props).k \o <<"\"", ":">>
         \o JsonStringify(Head(props).val)
         \o (IF Tail(props) = <<>> THEN <<>> ELSE <<",">>)
         \o JsonProps(Tail(props))

JsonStringify(val) ==
    CASE val.t = "number"   -> <<ToString(val.v)>>
      [] val.t = "null"     -> <<"n", "u", "l", "l">>
      [] val.t = "string"   -> <<"\"">> \o val.v \o <<"\"">>
      [] val.t = "objectid" -> <<"\"">> \o val.v \o <<"\"">>
      [] val.t = "object"   -> <<"{">> \o JsonProps(val.v) \o <<"}">>

\* what log() hands to the method of the level: a LoggerMessage as it is, a
\* string wrapped in a LoggerMessage, an object serialized first when
\* objects_to_string is set and as it is otherwise
MongoLogger2_given(l, payload, lvl, c) ==
    IF IsLoggerMessage(payload) THEN payload
    ELSE IF payload.t = "string" THEN Logger2_createMessage(l, payload, lvl, c)
    ELSE IF l.objects_to_string
    THEN Logger2_createMessage(l, Str(JsonStringify(payload)), lvl, c)
    ELSE payload

\* _verbose(message) .. _error(message): the operations sent
MongoDbLogger_output(l, msg, lvl, c) ==
    MongoDbLogger_insertMessage(MongoDbLogger_processMessage(l, msg, lvl, c))

\* log(payload, level) of the base class with the _info.. of MongoDbLogger:
\* gives the logger, whether the call logged, the document and the
\* operations sent
MongoLogger2_log(l, payload, arg, c) ==
    LET lvl == IF arg.t = "undefined" THEN l.level ELSE arg.v
        msg == MongoLogger2_given(l, payload, lvl, c)
        ins == MongoDbLogger_output(l, msg, lvl, c)
    IN  IF ~l.enabled \/ lvl < l.level
        THEN [l |-> l, result |-> "not logged", doc |-> Undef, ops |-> <<>>]
        ELSE [l |-> [l EXCEPT !.log_count = @ + 1], result |-> "logged",
              doc |-> ins[1].doc,
              ops |-> MongoDbLogger_checkLogCount(l) \o ins]

MongoTexts == {Str(<<"1">>), Str(<<"2">>)}

\* the caller is awaiting an operation the store has not executed
Awaiting == \E i \in 1..Len(driver) : driver[i].awaited

NoneSent == [docs |-> <<>>, deletes |-> 0, clears |-> 0, mixed |-> FALSE]

InitMongo ==
    /\ \E ml \in 0..1 : mongo = NewMongoDbLogger(ml)
    /\ collection = <<>>
    /\ driver = <<>>
    /\ sent = NoneSent

IdleMongo ==
    /\ mongo = NewMongoDbLogger(0)
    /\ collection = <<>>
    /\ driver = <<>>
    /\ sent = NoneSent

\* await logger.log(payload, level), or the method of that level
MongoLogCall ==
    \E payload \in MongoTexts, arg \in FileLevelArgs :
        LET r == MongoLogger2_log(mongo, payload, arg, clock)
        IN  /\ ~Awaiting
            /\ Len(sent.docs) < MaxDocs
            /\ mongo' = r.l
            /\ driver' = driver \o r.ops
            /\ sent' = IF r.result = "logged"
                       THEN [sent EXCEPT !.docs = Append(@, r.doc),
                                         !.mixed = @ \/ sent.deletes > 0]
                       ELSE sent
            /\ call' = [op |-> "mongo.log", payload |-> payload,
                        result |-> r.result, doc |-> r.doc]
            /\ UNCHANGED collection

\* await logger.deleteFirstDocument(): the call, up to the promise returned
MongoDeleteFirstDocumentCall ==
    /\ ~Awaiting
    /\ sent.deletes + sent.clears < MaxRemovals
    /\ driver' = driver \o MongoDbLogger_deleteFirstDocument
    /\ sent' = [sent EXCEPT !.deletes = @ + 1]
    /\ call' = [op |-> "mongo.deleteFirstDocument", result |-> "pending"]
    /\ UNCHANGED <<mongo, collection>>

\* await logger.clear(): the call returns undefined
MongoClearCall ==
    /\ ~Awaiting
    /\ sent.deletes + sent.clears < MaxRemovals
    /\ driver' = driver \o MongoDbLogger_clear
    /\ sent' = [sent EXCEPT !.clears = @ + 1]
    /\ call' = [op |-> "mongo.clear", result |-> "resolved"]
    /\ UNCHANGED <<mongo, collection>>

\* the store executes one of the operations it has been sent; the promise of
\* an awaited one resolves
StoreExecutes ==
    \E i \in 1..Len(driver) :
        /\ collection' = Collection_execute(collection, driver[i])
        /\ driver' = SubSeq(driver, 1, i - 1) \o SubSeq(driver, i + 1, Len(driver))
        /\ call' = IF driver[i].awaited
                   THEN [call EXCEPT !.result = "resolved"]
                   ELSE call
        /\ UNCHANGED <<mongo, sent>>

\* Structured payloads: from a fresh logger, cloneAndFilterObject(object) is
\* called, or a payload is logged and its insert executed.
InitDoc ==
    /\ \E ots \in BOOLEAN :
           mongo = [NewMongoDbLogger(0) EXCEPT !.objects_to_string = ots]
    /\ collection = <<>>
    /\ driver = <<>>
    /\ sent = NoneSent

\* logger.cloneAndFilterObject(object)
DocCloneCall ==
    /\ call = NoCall
    /\ \E object \in DocObjects(MaxDepth) :
        /\ call' = [op |-> "cloneAndFilterObject", object |-> object,
                    result |-> cloneAndFilterObject(object)]
        /\ UNCHANGED mongoVars

\* await logger.info(object), or logger.info(new LoggerMessage({text: object}))
DocLogCall ==
    /\ call = NoCall
    /\ \E object \in DocObjects(MaxDepth), wrapped \in BOOLEAN :
        LET payload == IF wrapped
                       THEN LoggerMessage_new(
                                [context |-> Undef, level |-> Num(lv_info),
                                 name |-> Str(AppName), text |-> object,
                                 timestamp |-> Undef], clock)
                       ELSE object
            r == MongoLogger2_log(mongo, payload, Num(lv_info), clock)
        IN  /\ mongo' = r.l
            /\ driver' = driver \o r.ops
            /\ sent' = [sent EXCEPT !.docs = Append(@, r.doc)]
            /\ call' = [op |-> "mongo.log", payload |-> payload,
                        object |-> object, result |-> r.result,
                        doc |-> r.doc]
            /\ UNCHANGED collection

NextDoc ==
    \/ (DocCloneCall /\ UNCHANGED <<msgVars, v1Vars, fileVars>>)
    \/ (DocLogCall /\ UNCHANGED <<msgVars, v1Vars, fileVars>>)
    \/ (StoreExecutes /\ UNCHANGED <<msgVars, v1Vars, fileVars>>)

NextMongo ==
    \/ (MongoLogCall /\ UNCHANGED <<msgVars, v1Vars, fileVars>>)
    \/ (MongoDeleteFirstDocumentCall /\ UNCHANGED <<msgVars, v1Vars, fileVars>>)
    \/ (MongoClearCall /\ UNCHANGED <<msgVars, v1Vars, fileVars>>)
    \/ (StoreExecutes /\ UNCHANGED <<msgVars, v1Vars, fileVars>>)

-----------------------------------------------------------------------------
(* The FileLogger constructed on a path where a file may be: filesize is   *)
(* the JavaScript value the constructor leaves in it, a number or the      *)
(* Stats object of the file.                                               *)

\* Fs.statSync(filepath) of a file of the given size
Stats(size) == [t |-> "object", v |-> size]

\* a += n for a number n: a sum of numbers, and a string concatenation when
\* a is an object or a string
JsPlusNumber(a, n) ==
    CASE a.t = "number" -> Num(a.v + n)
      [] a.t = "object" -> Str(ObjectText \o <<ToString(n)>>)
      [] a.t = "string" -> Str(a.v \o <<ToString(n)>>)

\* the constructor: this.filesize = 0; try { this.filesize =
\* Fs.statSync(filepath); } catch (error) { }
MutStatSize(file) == Num(Len(file.data))

FileLogger_new_filesize(file) ==
    IF file.exists THEN Stats(Len(file.data)) ELSE Num(0)

\* append(text), up to the write callback, on that filesize
FileLogger_append_js(w, text) ==
    LET line == text \o EOL
        o == StreamFlushes(w)
    IN  [o EXCEPT !.logger.filesize = JsPlusNumber(@, Len(line)),
                  !.disk.file = IF o.logger.stream = "open"
                                THEN File(@.data \o Utf8Encode(line))
                                ELSE @]

\* checkLogCount(): the size condition on that filesize
FileLogger_size_due_js(l) ==
    l.maxsize # 0 /\ JsGreaterEq(l.filesize, Num(l.maxsize))

StatFiles == {FileAbsent} \cup {File(Utf8Encode(text)) : text \in QueueFiles}
StatSizes == {0, 4}

\* new FileLogger("App", {filepath, console: false, timestamp: none, maxsize})
InitStat ==
    /\ \E file \in StatFiles, ms \in StatSizes :
        /\ logger = [NewFileLogger(0, ms, FALSE)
                         EXCEPT !.filesize = FileLogger_new_filesize(file)]
        /\ disk = [file |-> file, tmp |-> FileAbsent]
        /\ call = [op |-> "new FileLogger", file |-> file]
    /\ crashed = FALSE
    /\ pipe = NoPipe
    /\ emitted = <<>>
    /\ used = {}

\* await logger.append(text)
StatAppendCall ==
    \E text \in QueueTexts :
        /\ Len(emitted) < MaxOps
        /\ SetWorld(FileLogger_append_js(World, text))
        /\ emitted' = Append(emitted, text)
        /\ used' = used \cup {"append"}
        /\ call' = [op |-> "append", file |-> call.file]
        /\ UNCHANGED pipe

\* the open that the constructor started completes
StatOpenDone ==
    /\ logger.stream = "opening"
    /\ SetWorld(StreamOpens(World))
    /\ call' = [op |-> "fs.open", file |-> call.file]
    /\ UNCHANGED <<pipe, emitted, used>>

NextStat ==
    \/ (StatOpenDone /\ UNCHANGED <<msgVars, v1Vars, mongoVars>>)
    \/ (StatAppendCall /\ UNCHANGED <<msgVars, v1Vars, mongoVars>>)

-----------------------------------------------------------------------------
(* The specifications.                                                     *)

StartMsg   == InitMsg /\ IdleV1 /\ IdleFile /\ IdleMongo /\ call = NoCall
StartV1    == IdleMsg /\ InitV1 /\ IdleFile /\ IdleMongo /\ call = NoCall
StartFile  == IdleMsg /\ IdleV1 /\ InitFile /\ IdleMongo /\ call = NoCall
StartCut   == IdleMsg /\ IdleV1 /\ InitCut /\ IdleMongo /\ call = NoCall
StartQueue == IdleMsg /\ IdleV1 /\ InitQueue /\ IdleMongo /\ call = NoCall
StartMongo == IdleMsg /\ IdleV1 /\ IdleFile /\ InitMongo /\ call = NoCall
StartDoc   == IdleMsg /\ IdleV1 /\ IdleFile /\ InitDoc /\ call = NoCall
StartStat  == IdleMsg /\ IdleV1 /\ InitStat /\ IdleMongo

SpecMsg   == StartMsg /\ [][NextMsg]_vars
SpecV1    == StartV1 /\ [][NextV1]_vars
SpecFile  == StartFile /\ [][NextFile]_vars
SpecOps   == StartFile /\ [][NextOps]_vars
SpecCut   == StartCut /\ [][NextCut]_vars
SpecQueue == StartQueue /\ [][NextQueue]_vars
SpecMongo == StartMongo /\ [][NextMongo]_vars
SpecDoc   == StartDoc /\ [][NextDoc]_vars
SpecStat  == StartStat /\ [][NextStat]_vars

\* delete(), clear() and the other operations on a logger that never rotates:
\* new FileLogger("App", {filepath, console: false, timestamp: none})
StartRemove == IdleMsg /\ IdleV1 /\ IdleFile /\ IdleMongo /\ call = NoCall
SpecRemove == StartRemove /\ [][NextOps]_vars

-----------------------------------------------------------------------------
(* Properties.                                                             *)

\* C1: a log call, or a per-level method, whose level is below the
\* threshold writes to no sink: the console receives nothing and the output
\* file is neither created nor appended to.  (Logger/NodeLogger of
\* src/logger.js; checked under SpecV1.)
C1_BelowThresholdWritesNothing ==
    [][(/\ call'.op \in {"log", "method"}
        /\ call'.level.t = "number"
        /\ call'.level.v < call'.threshold)
       => (console_out' = console_out /\ logfile' = logfile)]_vars

\* C1 witness: a call below the threshold has returned on a logger that had
\* already printed, with console output on.
C1_Witness ==
    /\ call.op \in {"log", "method"}
    /\ call.level.t = "number"
    /\ call.level.v < call.threshold
    /\ options.out_console
    /\ Len(console_out) > 0

\* C2: while enabled is false, a log call at any level changes neither the
\* disk (an absent file stays absent) nor the logger's counters (filesize,
\* log_count).  (Checked under SpecFile.)
C2_DisabledWritesNothing ==
    [][(call'.op = "log" /\ ~logger.enabled)
       => (disk' = disk /\ logger' = logger /\ call'.result = "not logged")]_vars

\* C2 witness: a disabled logger whose file is absent has returned from a
\* log call at the threshold level.
C2_Witness ==
    /\ call.op = "log"
    /\ ~logger.enabled
    /\ call.level >= logger.level
    /\ ~disk.file.exists
    /\ logger.filesize = 0

\* The level codes as the contract lists them.
ClaimCode(n) ==
    CASE n = 0 -> <<"V", "R", "B">>
      [] n = 1 -> <<"D", "B", "G">>
      [] n = 2 -> <<"I", "N", "F">>
      [] n = 3 -> <<"W", "R", "N">>
      [] n = 4 -> <<"E", "R", "R">>

\* The timestamp the contract gives a mode, read at clock value c.
ClaimStamp(class, n, c) ==
    IF class = "current"
    THEN CASE n = ts_utc        -> Date_toUTCString(c)
           [] n = ts_locale     -> Date_toLocaleString(c)
           [] n = ts_localetime -> Date_toLocaleTimeString(c)
           [] n = ts_localedate -> Date_toLocaleDateString(c)
           [] n = ts_numeric    -> Date_now(c)
    ELSE CASE n = old_ts_utc        -> Date_toUTCString(c)
           [] n = old_ts_locale     -> Date_toLocaleString(c)
           [] n = old_ts_localetime -> Date_toLocaleTimeString(c)
           [] n = old_ts_localedate -> Date_toLocaleDateString(c)
           [] n = old_ts_numeric    -> Date_now(c)

PresentText(v) == v.t = "string" /\ v.v # <<>>
PresentLevel(v) == v.t = "number" /\ v.v \in 0..4
PresentStamp(class, v) ==
    /\ v.t = "number"
    /\ IF class = "current" THEN v.v \in ts_utc..ts_numeric
       ELSE v.v \in old_ts_utc..old_ts_numeric

\* What the contract renders for the options o of a message born at c: each
\* present field in brackets with one space after it, in the order timestamp,
\* level, name, context, and the text last.
ClaimRendering(class, o, c) ==
    (IF PresentStamp(class, o.timestamp)
     THEN Bracket(ClaimStamp(class, o.timestamp.v, c)) ELSE <<>>)
    \o (IF PresentLevel(o.level) THEN Bracket(ClaimCode(o.level.v)) ELSE <<>>)
    \o (IF PresentText(o.name) THEN Bracket(o.name.v) ELSE <<>>)
    \o (IF PresentText(o.context) THEN Bracket(o.context.v) ELSE <<>>)
    \o (IF PresentText(o.text) THEN o.text.v ELSE <<>>)

\* C3: a record whose level, name, context and text are all present renders
\* as "[timestamp] [CODE] [name] [context] text", the timestamp part being
\* there when the record has one; name App, context User, level info, text
\* Test and no timestamp give "[INF] [App] [User] Test".  (Both classes;
\* checked under SpecMsg.)
C3_FullRecordRendering ==
    (/\ call.op = "toString"
     /\ PresentLevel(call.given.level)
     /\ PresentText(call.given.name)
     /\ PresentText(call.given.context)
     /\ PresentText(call.given.text))
    => /\ rendered = Str(ClaimRendering(call.class, call.given, call.born))
       /\ (/\ call.given.level = Num(2)
           /\ ~PresentStamp(call.class, call.given.timestamp))
          => rendered = Str(<<"[", "I", "N", "F", "]", " ",
                              "[", "A", "p", "p", "]", " ",
                              "[", "U", "s", "e", "r", "]", " ",
                              "T", "e", "s", "t">>)

\* C3 witness: a record of the current class with every field present, the
\* UTC timestamp read at clock value 1, has been rendered.
C3_Witness ==
    /\ call.op = "toString"
    /\ call.class = "current"
    /\ call.given.timestamp = Num(ts_utc)
    /\ rendered = Str(<<"[", "U", "1", "]", " ", "[", "W", "R", "N", "]", " ",
                        "[", "A", "p", "p", "]", " ",
                        "[", "U", "s", "e", "r", "]", " ",
                        "T", "e", "s", "t">>)

\* C4: whichever of timestamp, level, name and context is absent, the
\* rendered string has nothing in its place (no empty brackets, no
\* "[undefined]", no doubled space) and the other fields render as usual.
\* (Both classes; checked under SpecMsg.)
C4_AbsentFieldsRenderNothing ==
    call.op = "toString"
    => rendered = Str(ClaimRendering(call.class, call.given, call.born))

\* The same, for the current class alone.
C4_CurrentClassOnly ==
    (call.op = "toString" /\ call.class = "current")
    => rendered = Str(ClaimRendering(call.class, call.given, call.born))

\* The bytes of a file that holds the records rs, one per line.
BytesOfRecords(rs) ==
    Utf8Encode(Flatten([i \in 1..Len(rs) |-> rs[i] \o EOL]))

\* The bytes of one record and its line terminator.
RecordBytes(r) == Utf8Encode(r \o EOL)

\* The number of bytes of the first line of data, terminator included (0 when
\* data has no line terminator), and data without its first line.
FirstLineLen(data) ==
    LET i == IndexOf(data, Utf8Encode(EOL))
    IN  IF i = -1 THEN 0 ELSE i + Len(Utf8Encode(EOL))

AfterFirstLine(data) ==
    IF IndexOf(data, Utf8Encode(EOL)) = -1 THEN <<>>
    ELSE SubSeq(data, FirstLineLen(data) + 1, Len(data))

\* The number of line-terminated lines of data.
LineCount(data) ==
    Cardinality({i \in 1..Len(data) :
                    /\ i < Len(data)
                    /\ SubSeq(data, i, i + 1) = Utf8Encode(EOL)})

Max(a, b) == IF a >= b THEN a ELSE b

Last(q) == q[Len(q)]

\* C5: on a FileLogger without rotation limits whose file was absent, after
\* any sequence of awaited log calls of which r1..rn were emitted, the file
\* exists and holds exactly r1 EOL r2 EOL ... rn EOL: every record once, in
\* call order, each followed by one line terminator.  (Checked under
\* SpecFile.)
C5_FileIsRecordsInOrder ==
    (logger.maxlogs = 0 /\ logger.maxsize = 0 /\ emitted # <<>>)
    => disk.file = File(BytesOfRecords(emitted))

\* C5 witness: three records, not all the same and one of them of two lines,
\* have been emitted on a logger without limits, with a suppressed call
\* among the calls.
C5_Witness ==
    /\ logger.maxlogs = 0 /\ logger.maxsize = 0
    /\ Len(emitted) = 3
    /\ emitted[1] # emitted[2]
    /\ \E i \in 1..3 : IndexOf(emitted[i], EOL) # -1
    /\ call.op = "log" /\ call.result = "not logged"
    /\ disk.file.exists

\* C6: on a FileLogger created on an absent file, in every state reached by
\* awaited appends, log calls and deleteFirstLine calls, the filesize
\* counter equals the number of bytes of the log file.  (Checked under
\* SpecOps.)
C6_FilesizeMatchesDisk ==
    (used \subseteq {"append", "log", "deleteFirstLine"} /\ ~crashed)
    => logger.filesize = Len(disk.file.data)

\* The same, as long as every text appended is ASCII.
C6_AsciiTextsOnly ==
    (/\ used \subseteq {"append", "log", "deleteFirstLine"}
     /\ ~crashed
     /\ \A i \in 1..Len(emitted) : \A j \in 1..Len(emitted[i]) :
            emitted[i][j] # "U+00E9")
    => logger.filesize = Len(disk.file.data)

\* C7: for a file of n >= 1 line-terminated lines and any way the read
\* stream splits it into chunks, after deleteFirstLine resolves the file
\* holds lines 2..n byte for byte.  (Checked under SpecCut.)
C7_CutKeepsTheRestByteForByte ==
    (/\ call.op = "deleteFirstLine"
     /\ call.done
     /\ call.before.disk.file.data # <<>>)
    => disk.file = File(AfterFirstLine(call.before.disk.file.data))

\* The same, as long as no chunk ends inside a character.
C7_WholeCharacterChunks ==
    (/\ call.op = "deleteFirstLine"
     /\ call.done
     /\ ~call.split
     /\ call.before.disk.file.data # <<>>)
    => disk.file = File(AfterFirstLine(call.before.disk.file.data))

\* The rotation condition of the contract on the state w: the count is the
\* number of records the file retains.
ClaimRotationDue(w) ==
    \/ /\ w.logger.maxlogs > 0
       /\ LineCount(w.disk.file.data) >= w.logger.maxlogs
    \/ /\ w.logger.maxsize > 0
       /\ w.logger.filesize >= w.logger.maxsize

\* C8: the rotation check of an emitting log call removes the first line of
\* the file if and only if maxlogs > 0 and the number of retained records is
\* at least maxlogs, or maxsize > 0 and the tracked size is at least maxsize;
\* otherwise it leaves the file as it was; in both cases the new record is
\* then appended.  (One-line records, a single file, calls to log and
\* deleteFirstLine only; checked under SpecOps.)
C8_EvictsIffLimitReached ==
    (/\ call.op = "log"
     /\ call.result = "logged"
     /\ ~logger.multiplefiles
     /\ used \subseteq {"log", "deleteFirstLine"})
    => disk.file.data =
           (IF ClaimRotationDue(call.before)
            THEN AfterFirstLine(call.before.disk.file.data)
            ELSE call.before.disk.file.data)
           \o RecordBytes(Last(emitted))

\* The same, when log is the only operation called.
C8_LogCallsOnly ==
    (/\ call.op = "log"
     /\ call.result = "logged"
     /\ ~logger.multiplefiles
     /\ used \subseteq {"log"})
    => disk.file.data =
           (IF ClaimRotationDue(call.before)
            THEN AfterFirstLine(call.before.disk.file.data)
            ELSE call.before.disk.file.data)
           \o RecordBytes(Last(emitted))

\* The number of records the file retains: the most k for which the file
\* ends with the last k records emitted, each complete.
RetainedRecords ==
    LET fits(k) ==
            LET tail == BytesOfRecords(SubSeq(emitted, Len(emitted) - k + 1,
                                              Len(emitted)))
                n == Len(disk.file.data)
            IN  /\ Len(tail) <= n
                /\ SubSeq(disk.file.data, n - Len(tail) + 1, n) = tail
    IN  CHOOSE k \in 0..Len(emitted) :
            /\ fits(k)
            /\ \A j \in 0..Len(emitted) : fits(j) => j <= k

\* C9: with maxlogs = M > 0 on a file that starts empty, after any sequence
\* of awaited log calls the file retains at most M + 1 records.  (A single
\* file; checked under SpecFile.)
C9_RetainedAtMostMaxlogsPlusOne ==
    (logger.maxlogs > 0 /\ ~logger.multiplefiles)
    => RetainedRecords <= logger.maxlogs + 1

\* The same, as long as every record is of one line.
C9_OneLineRecords ==
    (/\ logger.maxlogs > 0
     /\ ~logger.multiplefiles
     /\ \A i \in 1..Len(emitted) : IndexOf(emitted[i], EOL) = -1)
    => RetainedRecords <= logger.maxlogs + 1

C11_FileIsSuffixOfRecords ==
    (~logger.multiplefiles /\ emitted # <<>>)
    => \E k \in 0..Len(emitted) :
           disk.file.data = BytesOfRecords(SubSeq(emitted, Len(emitted) - k + 1,
                                                  Len(emitted)))

\* The same, as long as every record is of one line.
C11_OneLineRecords ==
    (/\ ~logger.multiplefiles
     /\ emitted # <<>>
     /\ \A i \in 1..Len(emitted) : IndexOf(emitted[i], EOL) = -1)
    => \E k \in 0..Len(emitted) :
           disk.file.data = BytesOfRecords(SubSeq(emitted, Len(emitted) - k + 1,
                                                  Len(emitted)))

\* C12: deleteFirstLine sets filesize to max(0, filesize - r), r being the
\* number of bytes the call removed from the file, and filesize is never
\* negative.  (No chunk ends inside a character; checked under SpecCut.)
C12_FilesizeLessBytesRemoved ==
    /\ logger.filesize >= 0
    /\ (/\ call.op = "deleteFirstLine"
        /\ call.done
        /\ ~call.split)
       => logger.filesize
              = Max(0, call.before.logger.filesize
                       - (Len(call.before.disk.file.data) - Len(disk.file.data)))

\* The same, as long as the file is ASCII.
C12_AsciiFiles ==
    /\ logger.filesize >= 0
    /\ (/\ call.op = "deleteFirstLine"
        /\ call.done
        /\ \A i \in 1..Len(call.before.disk.file.data) :
               call.before.disk.file.data[i] \notin {"0xC3", "0xA9"})
       => logger.filesize
              = Max(0, call.before.logger.filesize
                       - (Len(call.before.disk.file.data) - Len(disk.file.data)))

\* C14: delete() is idempotent: called when the file is absent it raises no
\* error and changes nothing, and a second delete() leaves the state the
\* first one left, with the file absent.  (Checked under SpecRemove.)
C14_DeleteIsIdempotent ==
    call.op = "delete"
    => /\ ~crashed
       /\ ~disk.file.exists
       /\ FileLogger_delete(World) = World
       /\ ~call.before.disk.file.exists => World = call.before

\* C14 witness: delete() has returned on a logger whose file an earlier
\* delete() had removed.
C14_Witness ==
    /\ call.op = "delete"
    /\ call.before.logger.stream = "unlinked"
    /\ ~call.before.disk.file.exists
    /\ emitted # <<>>

\* C15 as stated: after clear() has resolved, whether or not the file was
\* there before, no error has been raised and no file is at filepath until a
\* later record is appended.  (Checked under SpecRemove.)
C15_AbsentUntilNextRecord ==
    [][(/\ call.op \in {"clear", "fs.open"}
        /\ ~crashed
        /\ ~disk.file.exists
        /\ call'.op \notin {"append", "log"})
       => ~disk'.file.exists]_vars

\* C15 amended: when clear() resolves, whether or not the file was there
\* before, no error has been raised, no file is at filepath and the append
\* stream has been reopened; the open of that stream then creates an empty
\* file at filepath on its own, before any record is appended.
C15_AbsentWhenClearResolves ==
    /\ [](call.op = "clear"
          => /\ ~crashed
             /\ call.result = "resolved"
             /\ ~disk.file.exists
             /\ logger.stream = "opening")
    /\ [][(call.op = "clear" /\ call'.op = "fs.open")
          => disk'.file = File(<<>>)]_vars

\* C15 witness: clear() has resolved on a logger whose file held records.
C15_Witness ==
    /\ call.op = "clear"
    /\ call.before.disk.file.exists
    /\ call.before.disk.file.data # <<>>
    /\ ~disk.file.exists

\* C15, the other case: clear() has resolved on a logger whose file was not
\* there.
C15_WitnessAbsentBefore ==
    /\ call.op = "clear"
    /\ ~call.before.disk.file.exists
    /\ call.before.logger.stream = "opening"
    /\ ~disk.file.exists

\* C17: every file operation that returns a promise (append, clear,
\* deleteFirstLine, and log through them) settles it: when the underlying
\* read, write, close, unlink or rename fails the promise rejects, and it is
\* never left pending.  (Checked under SpecOps.)
C17_EveryPromiseSettles ==
    call.op \in {"append", "clear", "deleteFirstLine", "log"}
    => call.result # "pending"

\* C18: when a step of an eviction fails (a read of the file, a write to the
\* temporary file, the rename), the file at filepath is still there and
\* holds what it held before the eviction or that less its first line, and
\* the logger's stream can still be appended to.  (Checked under SpecCut.)
C18_FailedEvictionKeepsFile ==
    (call.op = "deleteFirstLine" /\ call.failed # "none")
    => /\ disk.file.exists
       /\ disk.file.data \in {call.before.disk.file.data,
                              AfterFirstLine(call.before.disk.file.data)}
       /\ logger.stream \in {"opening", "open"}

\* The same, for a failed read and a failed write alone.
C18_ReadOrWriteFails ==
    (call.op = "deleteFirstLine" /\ call.failed \in {"read", "write"})
    => /\ disk.file = call.before.disk.file
       /\ logger.stream \in {"opening", "open"}

\* C16: clear() and deleteFirstLine() unlink or replace the file only after
\* the stream has closed, every write accepted before then being written to
\* the file and part of what the eviction reads: after deleteFirstLine()
\* the file is what it held plus the accepted writes, less the first line,
\* and after clear() no accepted write is left to land in the new file.
\* (Checked under SpecQueue.)
C16_AcceptedWritesSurvive ==
    /\ (call.op = "deleteFirstLine" /\ call.done)
       => disk.file.data
              = AfterFirstLine(call.before.disk.file.data
                               \o Flatten(call.before.logger.queued))
    /\ call.op = "clear"
       => (logger.queued = <<>> /\ ~disk.file.exists)

\* The same, when the stream holds no write as deleteFirstLine() is called.
C16_NothingQueued ==
    /\ (call.op = "deleteFirstLine" /\ call.done
        /\ call.before.logger.queued = <<>>)
       => disk.file.data = AfterFirstLine(call.before.disk.file.data)
    /\ call.op = "clear"
       => (logger.queued = <<>> /\ ~disk.file.exists)

\* The documents of a sequence.
Docs(q) == {q[i] : i \in 1..Len(q)}

\* C13: when the promise of an emitting log call resolves, the record is in
\* the sink: a read of the collection returns it.  (MongoDbLogger; checked
\* under SpecMongo.)
C13_RecordPresentWhenResolved ==
    (call.op = "mongo.log" /\ call.result = "logged")
    => call.doc \in Docs(collection)

\* The same on the file: when the promise of an emitting log call resolves,
\* the file at filepath ends with the record, as long as log is the only
\* operation called.  (Checked under SpecFile.)
C13_FileRecordPresent ==
    (call.op = "log" /\ call.result = "logged")
    => /\ disk.file.exists
       /\ Len(disk.file.data) >= Len(RecordBytes(Last(emitted)))
       /\ SubSeq(disk.file.data,
                 Len(disk.file.data) - Len(RecordBytes(Last(emitted))) + 1,
                 Len(disk.file.data)) = RecordBytes(Last(emitted))

\* C19: with the logger the only writer, after d1..dn have been logged and
\* deleteFirstDocument() has been awaited k times, 1 <= k <= n, the
\* collection holds d(k+1)..dn in order, once the store has executed what it
\* was sent.  (Checked under SpecMongo.)
C19_OldestDocumentsRemoved ==
    (/\ driver = <<>>
     /\ sent.clears = 0
     /\ ~sent.mixed
     /\ sent.deletes >= 1
     /\ sent.deletes <= Len(sent.docs))
    => collection = SubSeq(sent.docs, sent.deletes + 1, Len(sent.docs))

\* Each deleteOne({}) the store executes removes one document, the oldest of
\* the collection, or nothing from an empty collection.
C19_StoreRemovesOldest ==
    [][(Len(driver') < Len(driver) /\ call'.op = "mongo.deleteFirstDocument"
        /\ call.result = "pending" /\ call'.result = "resolved")
       => collection' = IF collection = <<>> THEN <<>> ELSE Tail(collection)]_vars

\* C20: when clear() has resolved the collection is empty, whatever it held.
\* (No insert is under way; checked under SpecMongo.)
C20_EmptyWhenClearResolves ==
    (/\ call.op = "mongo.clear"
     /\ call.result = "resolved"
     /\ \A i \in 1..Len(driver) : driver[i].kind # "insertOne")
    => collection = <<>>

\* Once the store has executed the deleteMany({}) of clear(), the collection
\* is empty; on an empty collection it changes nothing.
C20_StoreEmptiesCollection ==
    [][(\E i \in 1..Len(driver) :
            /\ driver[i].kind = "deleteMany"
            /\ driver' = SubSeq(driver, 1, i - 1)
                          \o SubSeq(driver, i + 1, Len(driver))
            /\ \A j \in 1..Len(driver) : driver[j].kind # "insertOne")
       => collection' = <<>>]_vars

\* C21: logging through a MongoDbLogger with maxlogs = M > 0 never leaves more
\* than M + 1 documents in the collection, the rotation check deleting the
\* oldest document whenever the count has reached M.  (Checked under
\* SpecMongo.)
C21_AtMostLimitPlusOne ==
    (mongo.maxlogs > 0 /\ sent.clears = 0)
    => Len(collection) <= mongo.maxlogs + 1

\* C21, what the code does: a log call sends the insert of its document and
\* nothing else, whatever maxlogs and the count are.
C21_LogCallsNeverEvict ==
    [][call'.op = "mongo.log"
       => \A i \in 1..Len(driver') : driver'[i].kind # "deleteOne"]_vars

\* C22: whatever the structured payload (objects nested to any depth, their
\* values primitives, nested objects or identifier objects), the result of
\* cloneAndFilterObject has, at every nesting level, no key holding $ or
\* '.'.  (Checked under SpecDoc.)
C22_NoReservedKeyLeft ==
    call.op = "cloneAndFilterObject" => ~HasReservedKey(call.result)

\* C22, payloads without identifier objects: no key of the result holds $ or
\* '.', at any nesting level.
C22_WithoutIdentifierObjects ==
    (call.op = "cloneAndFilterObject" /\ ~HasObjectId(call.object))
    => ~HasReservedKey(call.result)

\* the documents handed to insertOne, executed by the store or not yet
InsertedDocs ==
    {collection[i] : i \in 1..Len(collection)}
    \cup {driver[i].doc : i \in {j \in 1..Len(driver) :
                                     driver[j].kind = "insertOne"}}

\* C23: a caller-supplied structured payload that reaches insertOne through
\* a MongoDbLogger, whatever objects_to_string is and whether it arrives as a
\* plain object or as the text of a LoggerMessage, has been passed through
\* cloneAndFilterObject: the document inserted holds the result of that step,
\* or the serialized string, never the payload itself.  (Checked under
\* SpecDoc.)
C23_InsertedPayloadsAreFiltered ==
    call.op = "mongo.log"
    => /\ call.result = "logged"
       /\ InsertedDocs = {call.doc}
       /\ IsLoggerMessage(call.doc)
       /\ IF IsLoggerMessage(call.payload) \/ ~mongo.objects_to_string
          THEN call.doc.text = cloneAndFilterObject(call.object)
          ELSE call.doc.text = Str(JsonStringify(call.object))

\* C23 witness: a plain object with a reserved key has been logged and the
\* store has executed the insert.
C23_Witness ==
    /\ call.op = "mongo.log"
    /\ ~IsLoggerMessage(call.payload)
    /\ HasReservedKey(call.object)
    /\ driver = <<>>
    /\ collection = <<call.doc>>
    /\ ~HasReservedKey(call.doc.text)

\* C24: the timestamp of a record is read from the clock once, when the
\* record is constructed: toString() on the same LoggerMessage, called again
\* at any later clock value, returns the string it returned before and leaves
\* the record as it was.  (Current class; checked under SpecMsg.)
C24_ToStringIsRepeatable ==
    /\ []((call.op \in {"new", "toString"} /\ message.kind = "message")
          => message.timestamp
               = IF call.given.timestamp.t # "undefined"
                 THEN generateTimestamp(call.given.timestamp, call.born)
                 ELSE call.given.timestamp)
    /\ [][(call.op = "toString" /\ call'.op = "toString"
           /\ message.kind = "message")
          => (rendered' = rendered /\ message' = message)]_vars

\* C24 witness: a record whose UTC timestamp was read at clock value 0 has
\* been rendered at clock value 2.
C24_Witness ==
    /\ call.op = "toString"
    /\ message.kind = "message"
    /\ call.born = 0
    /\ call.at = 2
    /\ message.timestamp = Str(Date_toUTCString(0))
    /\ rendered = Str(Bracket(Date_toUTCString(0)))

\* C25: a record constructed with timestamp mode numeric has as its timestamp
\* the milliseconds since the epoch at construction, as a decimal string, and
\* renders "[<ms>] " before the level; construction does not fail and the
\* locale format is not used.  (Current class; checked under SpecMsg.)
C25_NumericTimestamp ==
    (/\ call.op \in {"new", "toString"}
     /\ call.class = "current"
     /\ call.given.timestamp = Num(ts_numeric))
    => /\ message.kind = "message"
       /\ message.timestamp = Str(Date_now(call.born))
       /\ call.op = "toString"
          => SubSeq(rendered.v, 1, 4) = Bracket(Date_now(call.born))

\* C25, the earlier class: the timestamp of mode numeric is the milliseconds
\* since the epoch at construction, in brackets.
C25_EarlierClass ==
    (/\ call.op \in {"new", "toString"}
     /\ call.class = "old"
     /\ call.given.timestamp = Num(old_ts_numeric))
    => /\ message.kind = "old_message"
       /\ message.timestamp = Str(Bracket(Date_now(call.born)))
       /\ call.op = "toString"
          => SubSeq(rendered.v, 1, 4) = Bracket(Date_now(call.born))

\* the name is no key of Logger.level.stringmap
UnknownLevelName(arg) ==
    arg.t = "string" /\ Logger_level_stringmap(arg.v).t = "undefined"

\* C26: a level name that is not in the level name map, given to setLogLevel
\* or as the level of log, leaves the threshold as it was and emits nothing:
\* the payload is never written under an undefined or default level.  (Logger
\* of src/logger.js; checked under SpecV1.)
C26_UnknownLevelNameRejected ==
    [][/\ (call'.op = "setLogLevel" /\ UnknownLevelName(call'.arg))
          => options' = options
       /\ (call'.op = "log" /\ UnknownLevelName(call'.level))
          => (/\ options' = options
              /\ console_out' = console_out
              /\ logfile' = logfile)]_vars

\* C26, setLogLevel alone: an unknown level name leaves the threshold as it
\* was and writes no record.
C26_SetLogLevelKeepsThreshold ==
    [][(call'.op = "setLogLevel" /\ UnknownLevelName(call'.arg))
       => (/\ ~call'.valid
           /\ options' = options
           /\ console_out' = console_out
           /\ logfile' = logfile)]_vars

\* the log call of the step is not suppressed by the threshold
EmittingStep ==
    /\ call'.op \in {"log", "method"}
    /\ ~Logger_log_returns_early(call'.level, call'.threshold)

\* C30: on a NodeLogger with console output enabled and a valid output file
\* path, every emitted message is written to both destinations: printed to
\* the console and appended to the file, followed by a line terminator.
\* (Checked under SpecV1.)
C30_ConsoleAndFile ==
    [][(EmittingStep /\ options.out_console /\ options.out_file # <<>>)
       => (/\ console_out' # console_out
           /\ logfile' # logfile
           /\ SubSeq(logfile', 1, Len(logfile)) = logfile
           /\ SubSeq(logfile', Len(logfile') - Len(EOL) + 1, Len(logfile'))
                = Utf8Encode(EOL))]_vars

\* C30, what the code does: with console output enabled the message is
\* printed and the file is left alone; with it disabled and a valid path the
\* message is appended to the file, followed by a line terminator.
C30_ConsoleOrFile ==
    [][EmittingStep
       => IF options.out_console
          THEN console_out' # console_out /\ logfile' = logfile
          ELSE IF options.out_file # <<>>
          THEN /\ console_out' = console_out
               /\ logfile' # logfile
               /\ SubSeq(logfile', 1, Len(logfile)) = logfile
               /\ SubSeq(logfile', Len(logfile') - Len(EOL) + 1, Len(logfile'))
                    = Utf8Encode(EOL)
          ELSE console_out' = console_out /\ logfile' = logfile]_vars

\* C27: a timestamp format outside the timestamp enumeration, given to a
\* LoggerMessage, is reported as a configuration error: no record is
\* constructed from it, neither one in the locale format nor one without a
\* timestamp.  (Current class; checked under SpecMsg.)
C27_UnknownFormatRejected ==
    (/\ call.op \in {"new", "toString"}
     /\ call.class = "current"
     /\ call.given.timestamp.t = "number"
     /\ call.given.timestamp.v \notin ts_none..ts_numeric)
    => message.kind # "message"

\* C27, what the code does: a format outside the enumeration gives a record
\* without a timestamp, and never one in the locale format.
C27_UnknownFormatGivesNoTimestamp ==
    (/\ call.op \in {"new", "toString"}
     /\ call.class = "current"
     /\ call.given.timestamp.t = "number"
     /\ call.given.timestamp.v \notin ts_none..ts_numeric)
    => /\ message.kind = "message"
       /\ message.timestamp = Undef

\* what log(payload, lvl) leaves on the console and in the file, for a level
\* given by its enum value
EnumLogOutcome(payload, lvl) ==
    LET msg == IF payload.t = "string"
               THEN Str(Logger_createMessage(options, payload, lvl, clock))
               ELSE payload
    IN  IF Logger_log_returns_early(lvl, options.level)
        THEN <<console_out, logfile>>
        ELSE IF options.out_console
        THEN <<Logger_logMessage(console_out, msg), logfile>>
        ELSE IF options.out_file # <<>>
        THEN <<console_out, NodeLogger_appendToLogFile(logfile, msg)>>
        ELSE <<console_out, logfile>>

\* C28: log(payload, name), for a name of the level name map, behaves like
\* log(payload, the enum value of the name): the same threshold decision and
\* the same level code in the emitted record.  (Logger of src/logger.js;
\* checked under SpecV1.)
C28_LevelNameLikeEnum ==
    [][(/\ call'.op = "log"
        /\ call'.level.t = "string"
        /\ ~UnknownLevelName(call'.level))
       => <<console_out', logfile'>>
            = EnumLogOutcome(call'.payload,
                             Logger_level_stringmap(call'.level.v))]_vars

\* C28, what the code does: a level given by name is never below the
\* threshold, and a string payload is emitted under the level code
\* "undefined".
C28_LevelNameNeverSuppressed ==
    [][(call'.op = "log" /\ call'.level.t = "string")
       => (/\ ~Logger_log_returns_early(call'.level, call'.threshold)
           /\ Logger_level_string(call'.level) = Undef
           /\ options.out_console => console_out' # console_out)]_vars

\* C29: a log call that does not emit (its level is below the threshold)
\* returns a not-logged result the caller can tell from the result of a call
\* that emitted: no emitting call returns the value a suppressed call
\* returns.  (Logger and NodeLogger of src/logger.js; checked under SpecV1.)
C29_NotLoggedIsDistinct ==
    (/\ call.op \in {"log", "method"}
     /\ ~Logger_log_returns_early(call.level, call.threshold))
    => call.returned # "this"

\* C29, what the code does: a suppressed call returns the logger itself and
\* raises no error, which is also what a call printed to the console returns.
C29_SuppressedReturnsLogger ==
    (/\ call.op \in {"log", "method"}
     /\ Logger_log_returns_early(call.level, call.threshold))
    => call.returned = "this"

\* C31: after clear() resolves, and after delete(), the filesize counter is
\* 0, matching the empty or absent file.  (Checked under SpecRemove.)
C31_FilesizeZeroAfterRemoval ==
    call.op \in {"clear", "delete"} => logger.filesize = 0

\* C31, what the code does: clear() and delete() leave the filesize counter
\* as it was.
C31_FilesizeUntouched ==
    call.op \in {"clear", "delete"}
    => logger.filesize = call.before.logger.filesize

\* C33: append(text) increases filesize by the number of bytes written to
\* the file for text and the line terminator, also for a text with
\* characters encoded in more than one byte.  (Checked under SpecRemove.)
C33_FilesizeCountsBytes ==
    (call.op = "append" /\ call.before.logger.stream \in {"opening", "open"}
     /\ (call.before.logger.stream = "opening"
         => ~call.before.disk.file.exists))
    => logger.filesize - call.before.logger.filesize
         = Len(disk.file.data) - Len(call.before.disk.file.data)

\* C33, what the code does: filesize grows by the number of characters of
\* text and the line terminator, which is the number of bytes written when
\* the text is ASCII.
C33_FilesizeCountsCharacters ==
    call.op = "append"
    => /\ logger.filesize - call.before.logger.filesize
            = Len(Last(emitted) \o EOL)
       /\ (\A i \in 1..Len(Last(emitted)) : Last(emitted)[i] # "U+00E9")
          => logger.filesize - call.before.logger.filesize
               = Len(Utf8Encode(Last(emitted) \o EOL))

\* C32: a FileLogger constructed on a path whose file holds S bytes has
\* filesize equal to the number S, and to 0 when the file is absent; after
\* any appends filesize is still a number, S plus the bytes appended, so the
\* size-based rotation check compares the byte count of the file with
\* maxsize.  (ASCII texts; checked under SpecStat.)
C32_FilesizeIsTheByteCount ==
    /\ logger.filesize.t = "number"
    /\ logger.filesize.v
         = Len(call.file.data) + Len(Utf8Encode(Flatten([i \in 1..Len(emitted) |->
                                                   emitted[i] \o EOL])))
    /\ FileLogger_size_due_js(logger)
         <=> (logger.maxsize # 0
              /\ Len(call.file.data)
                   + Len(Utf8Encode(Flatten([i \in 1..Len(emitted) |->
                                                 emitted[i] \o EOL])))
                 >= logger.maxsize)

\* C32, the logger constructed on an absent file: filesize is the number of
\* bytes appended.
C32_AbsentFile ==
    ~call.file.exists
    => /\ logger.filesize.t = "number"
       /\ logger.filesize.v
            = Len(Utf8Encode(Flatten([i \in 1..Len(emitted) |->
                                          emitted[i] \o EOL])))

\* C32, the logger constructed on a file that is there: filesize is never a
\* number and the size condition never holds, whatever the file holds.
C32_ExistingFile ==
    call.file.exists
    => /\ logger.filesize.t # "number"
       /\ ~FileLogger_size_due_js(logger)

\* C34: with a single writer, once the store has executed what the logger
\* sent it, the cached log_count is the number of documents in the
\* collection, after every insert, deleteFirstDocument and clear made
\* through the logger.  (Checked under SpecMongo.)
C34_CountMatchesCollection ==
    driver = <<>> => mongo.log_count = Len(collection)

\* C34, what the code does: log_count is the number of log calls that
\* logged; deleteFirstDocument and clear leave it as it was.
C34_CountIsLogCalls ==
    /\ [](mongo.log_count = Len(sent.docs))
    /\ [][call'.op \in {"mongo.deleteFirstDocument", "mongo.clear"}
          => mongo'.log_count = mongo.log_count]_vars

\* C35: after delete() has removed the log file, the next emitting log call
\* whose promise resolves leaves a file at filepath that ends with its
\* record.  (Checked under SpecRemove.)
C35_RecordAfterDeleteIsInFile ==
    [][(/\ call.op = "delete"
        /\ call.before.disk.file.exists
        /\ call'.op = "log"
        /\ call'.result = "logged")
       => (/\ disk'.file.exists
           /\ Len(disk'.file.data) >= Len(RecordBytes(Last(emitted')))
           /\ SubSeq(disk'.file.data,
                     Len(disk'.file.data) - Len(RecordBytes(Last(emitted'))) + 1,
                     Len(disk'.file.data)) = RecordBytes(Last(emitted')))]_vars

\* C35, what the code does: when delete() removes the file the stream has
\* open, the next log call resolves and there is still no file at filepath.
C35_RecordAfterDeleteIsLost ==
    [][(/\ call.op = "delete"
        /\ call.before.disk.file.exists
        /\ call.before.logger.stream = "open"
        /\ call'.op = "log"
        /\ call'.result = "logged")
       => (~disk'.file.exists /\ logger'.stream = "unlinked")]_vars

====
